---- MODULE Spec2Model ----
(***************************************************************************)
(* Leveling store of the Discord leveling bot (LevelingDatabase, per-guild *)
(* schema version) together with the handlers that drive it.               *)
(*                                                                         *)
(* Execution model: the bot is one Node.js process and better-sqlite3 is   *)
(* synchronous, so every LevelingDatabase method runs to completion before *)
(* any other event is handled.  sacrificeUser is declared async but holds  *)
(* no await, so its body is one uninterrupted step as well.  Concurrent    *)
(* callers are therefore events handled in an arbitrary order, one action  *)
(* per handler.                                                            *)
(***************************************************************************)
EXTENDS Integers, Sequences, FiniteSets, TLC

\* ---------------------------------------------------------------- bounds
XpCap == 30010          \* addXP is not taken beyond this stored xp
MaxSacrifices == 2      \* completed sacrifices per row
MaxTimers == 1          \* armed reset timers per (guild, user)
MaxCalls == 4           \* addXP(u, g, 1) calls issued per user in SpecCalls

\* ------------------------------------------------------------ input sets
Guilds == {"111"}
Users == {"u1", "u2"}
\* amounts handed to addXP: their sums fall between the thresholds (4999,
\* 14997, 29994), on the highest one (4999 + 25001) and, after a reset to 5,
\* just above it (30005)
XpAmounts == {4999, 25001}

NoRow == [absent |-> TRUE]

\* ------------------------------------------------------- configuration
\* config.xp of the shipped configuration
ShippedConfig ==
    [ maxLevel |-> 100,
      baseXP |-> 100,
      useCustomThresholds |-> TRUE,
      interpolateXP |-> TRUE,
      customLevelThresholds |-> (1 :> 5) @@ (10 :> 1000) @@ (20 :> 5000)
                                @@ (50 :> 10000) @@ (100 :> 30000) ]

\* a configuration the engine accepts as well (it validates nothing): the
\* highest threshold level lies above maxLevel
OverMaxConfig ==
    [ maxLevel |-> 100,
      baseXP |-> 100,
      useCustomThresholds |-> TRUE,
      interpolateXP |-> TRUE,
      customLevelThresholds |-> (1 :> 5) @@ (50 :> 10000) @@ (150 :> 30000) ]

Configs == {ShippedConfig, OverMaxConfig}

\* ------------------------------------------------------ leveling engine
\* Object.keys(thresholds).map(parseInt).sort((a, b) => a - b)
RECURSIVE SortAsc(_)
SortAsc(S) ==
    IF S = {} THEN <<>>
    ELSE LET m == CHOOSE x \in S : \A y \in S : x <= y
         IN  <<m>> \o SortAsc(S \ {m})

DefinedLevels(c) == SortAsc(DOMAIN c.customLevelThresholds)

\* baseXP * level^curve with curve = 3/2, as the pair (floor, exact)
\* (the integer square root by bisection between lo and hi, lo * lo <= n < hi * hi)
RECURSIVE ISqrtIn(_, _, _)
ISqrtIn(n, lo, hi) ==
    IF hi - lo <= 1 THEN lo
    ELSE LET mid == (lo + hi) \div 2
         IN  IF mid * mid <= n THEN ISqrtIn(n, mid, hi) ELSE ISqrtIn(n, lo, mid)

FormulaXpFloor(c, level) ==
    ISqrtIn(c.baseXP * c.baseXP * level * level * level, 0,
            c.baseXP * level * level + 1)

\* variant: the level is not divided by the lowest configured level
BelowLowestNoDivision(level, lowerLevel, lowerXP) == level * lowerXP

\* Math.floor((level / lowerLevel) * customLevelThresholds[lowerLevel]), the
\* quotient taken exactly
BelowLowest(level, lowerLevel, lowerXP) == (level * lowerXP) \div lowerLevel

\* whether the number xpForLevel returns is an integer: every threshold branch
\* ends in a table entry or in Math.floor, the formula fallback returns
\* baseXP * Math.pow(level, curve) as it is
XpForLevelIsInteger(c, level0) ==
    LET level == IF level0 > c.maxLevel THEN c.maxLevel ELSE level0
        f == FormulaXpFloor(c, level)
    IN  \/ c.useCustomThresholds /\ level \in DOMAIN c.customLevelThresholds
        \/ c.useCustomThresholds /\ c.interpolateXP
        \/ f * f = c.baseXP * c.baseXP * level * level * level

\* xpForLevel: the level is clamped from above only
XpForLevel(c, level0) ==
    LET level == IF level0 > c.maxLevel THEN c.maxLevel ELSE level0
        T == c.customLevelThresholds
    IN
    IF c.useCustomThresholds /\ level \in DOMAIN T THEN T[level]
    ELSE IF c.useCustomThresholds /\ c.interpolateXP THEN
        LET d == DefinedLevels(c)
            n == Len(d)
            hits == {i \in 1..(n - 1) : d[i] <= level /\ level <= d[i + 1]}
            i0 == CHOOSE i \in hits : \A j \in hits : i <= j
            lowerLevel == IF hits = {} THEN d[1] ELSE d[i0]
            upperLevel == IF hits = {} THEN d[n] ELSE d[i0 + 1]
        IN
        IF level < lowerLevel THEN BelowLowest(level, lowerLevel, T[lowerLevel])
        ELSE IF level > upperLevel THEN T[upperLevel]
        ELSE T[lowerLevel]
             + ((T[upperLevel] - T[lowerLevel]) * (level - lowerLevel))
               \div (upperLevel - lowerLevel)
    ELSE FormulaXpFloor(c, level)

\* xp >= xpForLevel(level), exact also where the formula value is no integer
XpReaches(c, xp, level) ==
    IF c.useCustomThresholds THEN xp >= XpForLevel(c, level)
    ELSE LET lv == IF level > c.maxLevel THEN c.maxLevel ELSE level
             f == FormulaXpFloor(c, lv)
         IN  xp > f \/ (xp = f /\ f * f = c.baseXP * c.baseXP * lv * lv * lv)

\* the for loop of calculateLevel: the last level of the longest satisfied prefix
RECURSIVE PrefixLevel(_, _, _, _, _)
PrefixLevel(c, d, i, xp, acc) ==
    IF i > Len(d) THEN acc
    ELSE IF xp >= c.customLevelThresholds[d[i]]
         THEN PrefixLevel(c, d, i + 1, xp, d[i])
         ELSE acc

RECURSIVE FormulaLevel(_, _, _)
FormulaLevel(c, xp, level) ==
    IF level < c.maxLevel /\ XpReaches(c, xp, level + 1)
    THEN FormulaLevel(c, xp, level + 1)
    ELSE level

CalculateLevelUncapped(c, xp) ==
    LET T == c.customLevelThresholds
        d == DefinedLevels(c)
        n == Len(d)
        userLevel == PrefixLevel(c, d, 1, xp, 0)
        hits == {i \in 1..(n - 1) : xp >= T[d[i]] /\ xp < T[d[i + 1]]}
        i0 == CHOOSE i \in hits : \A j \in hits : i <= j
    IN
    IF c.interpolateXP /\ n > 0 /\ xp >= T[d[1]] /\ hits # {}
    THEN d[i0] + ((d[i0 + 1] - d[i0]) * (xp - T[d[i0]])) \div (T[d[i0 + 1]] - T[d[i0]])
    ELSE IF userLevel < c.maxLevel THEN userLevel ELSE c.maxLevel

\* variant: every comparison xp >= requiredXP is strict
CalculateLevelStrict(c, xp) ==
    IF c.useCustomThresholds THEN CalculateLevelUncapped(c, xp - 1)
    ELSE FormulaLevel(c, xp - 1, 0)

CalculateLevel(c, xp) ==
    IF c.useCustomThresholds THEN CalculateLevelUncapped(c, xp)
    ELSE FormulaLevel(c, xp, 0)


\* ---------------------------------------------------------------- state
VARIABLES
    cfg,               \* config.xp, fixed at start-up
    tables,            \* the tables and indexes of the database file, by name
    guildTablesCache,  \* LevelingDatabase.guildTablesCache
    usersGlobal,       \* user ids with a users_global row
    guildUsers,        \* guildUsers[g][u]: the row of u in users_<g>, or NoRow
    timers,            \* timers[g][u]: armed setTimeout reset callbacks
    reply,             \* the last operation handled and what it returned
    calls,             \* calls[g][u]: addXP(u, 1, g) events issued / returned
    rowInserts,        \* history: INSERTs into users_<g> that created a row
    openRequest,       \* history: a request awaits confirmation or timeout
    lastSacrifice,     \* history: outcome of the user's latest sacrifice request
    settings,          \* settings[t][k]: setting_value of k in settings_<t>, or NoRow
    bannerUrl,         \* bannerUrl[g][u]: banner_url of the row of u in users_<g>
    io,                \* history: what the last store call issued and how it ended
    rowids,            \* history: rowids.order[g] is the users of users_<g> in the
                       \* order of their rowid, kept where rowids.tracked
    legacy,            \* the database file as the single-table class of
                       \* src/database.js sees it across start-ups
    blacklist,         \* is_blacklisted of users_global and of users_<g> rows
    conn,              \* the connection and its checkpoint timer
    cooldown           \* XPCooldownManager.cooldowns and the clock

vars == <<cfg, tables, guildTablesCache, usersGlobal, guildUsers, timers,
          reply, calls, rowInserts, openRequest, lastSacrifice,
          settings, bannerUrl, io, rowids, legacy, blacklist, conn, cooldown>>

\* the state of the settings store and of the store-call history
storeVars == <<settings, bannerUrl, io>>

\* ------------------------------------------------------------ row level
\* column defaults of CREATE TABLE users_<guild> under INSERT ... (?, 0, 0, ...)
NewRow == [xp |-> 0, level |-> 0, sacrifices |-> 0, sacrifice_pending |-> 0]

\* variant: an upsert that resets xp and level of the row it finds
EnsureGuildUserRowUpsert(r) ==
    IF r = NoRow THEN NewRow ELSE [r EXCEPT !.xp = 0, !.level = 0]

\* variant: INSERT OR REPLACE without the SELECT guard
EnsureGuildUserRowReplace(r) == NewRow

\* ensureGuildUser: SELECT, INSERT OR IGNORE when missing, SELECT again
EnsureGuildUserRow(r) == IF r = NoRow THEN NewRow ELSE r

\* variant: the amount is subtracted
UpdateXPSubtract(r, xpAmount) == [r EXCEPT !.xp = @ - xpAmount]

\* UPDATE ... SET xp = xp + ?
UpdateXP(r, xpAmount) == [r EXCEPT !.xp = @ + xpAmount]

\* the transaction of addXP: add, re-read, recompute, persist a higher level
AddXPRow(c, r, xpAmount) ==
    LET userData == UpdateXP(r, xpAmount)
        newLevel == CalculateLevel(c, userData.xp)
    IN  IF newLevel > userData.level
        THEN [userData EXCEPT !.level = newLevel]
        ELSE userData

\* variant: oldLevel is read after the level was written
AddXPResultOldLevelLate(c, r, xpAmount) ==
    LET userData == AddXPRow(c, r, xpAmount)
        newLevel == CalculateLevel(c, userData.xp)
    IN  [ leveledUp |-> newLevel > userData.level,
          oldLevel |-> userData.level,
          newLevel |-> newLevel,
          currentXP |-> userData.xp,
          xpToNextLevel |-> XpForLevel(c, newLevel + 1) - userData.xp ]

\* the object addXP returns (r is the row before the call)
AddXPResult(c, r, xpAmount) ==
    LET userData == UpdateXP(r, xpAmount)
        oldLevel == userData.level
        newLevel == CalculateLevel(c, userData.xp)
    IN  [ leveledUp |-> newLevel > oldLevel,
          oldLevel |-> oldLevel,
          newLevel |-> newLevel,
          currentXP |-> userData.xp,
          xpToNextLevel |-> XpForLevel(c, newLevel + 1) - userData.xp ]

\* variant: config.xp.maxLevel is missing, and level < undefined is false
BelowMaxLevelUndefined(c, r) == FALSE

\* sacrificeUser: userData.level < config.xp.maxLevel
BelowMaxLevel(c, r) == r.level < c.maxLevel

\* variants of the reset statement: xp reset to 0, the counter left alone,
\* the level left alone, the flag left set
SacrificeRowXpZero(c, r) ==
    [r EXCEPT !.level = 1, !.xp = 0, !.sacrifices = @ + 1, !.sacrifice_pending = 0]

SacrificeRowNoCount(c, r) ==
    [r EXCEPT !.level = 1, !.xp = XpForLevel(c, 1), !.sacrifice_pending = 0]

SacrificeRowKeepsLevel(c, r) ==
    [r EXCEPT !.xp = XpForLevel(c, 1), !.sacrifices = @ + 1, !.sacrifice_pending = 0]

SacrificeRowKeepsPending(c, r) ==
    [r EXCEPT !.level = 1, !.xp = XpForLevel(c, 1), !.sacrifices = @ + 1]

\* variant: the reset deletes the row, to be created again on next use
SacrificeRowDeletes(c, r) == NoRow

\* sacrificeUser: UPDATE ... SET level = 1, xp = ?, sacrifices = sacrifices + 1,
\* sacrifice_pending = 0
SacrificeRow(c, r) ==
    [r EXCEPT !.level = 1, !.xp = XpForLevel(c, 1),
              !.sacrifices = @ + 1, !.sacrifice_pending = 0]

\* sacrificeUser: UPDATE ... SET sacrifice_pending = 1
PendingRow(r) == [r EXCEPT !.sacrifice_pending = 1]

\* variant: the reset statement matches no row
ResetPendingRowNoop(r) == r

\* resetSacrificePending: UPDATE ... SET sacrifice_pending = 0
ResetPendingRow(r) == IF r = NoRow THEN r ELSE [r EXCEPT !.sacrifice_pending = 0]

\* what sacrificeUser answers for the row getUser returned
SacrificeOutcome(c, r) ==
    IF BelowMaxLevel(c, r) THEN "notEligible"
    ELSE IF r.sacrifice_pending = 1 THEN "success"
    ELSE "needsConfirmation"

\* variant: the reset is performed on the first request, without confirmation
SacrificeUserRowNoConfirm(c, r) ==
    IF r.level < c.maxLevel THEN r ELSE
    [r EXCEPT !.level = 1, !.xp = XpForLevel(c, 1),
              !.sacrifices = @ + 1, !.sacrifice_pending = 0]

\* the row sacrificeUser leaves behind
SacrificeUserRow(c, r) ==
    IF BelowMaxLevel(c, r) THEN r
    ELSE IF r.sacrifice_pending = 1 THEN SacrificeRow(c, r)
    ELSE PendingRow(r)

\* isEligibleForSacrificePrompt on the row getUser returned
IsEligibleForSacrificePrompt(c, r) ==
    r.level >= c.maxLevel /\ XpReaches(c, r.xp, c.maxLevel)

\* ------------------------------------------------------------- helpers
Row(g, u) == guildUsers[g][u]
\* variant: one users table for all guilds, written without a guild filter
SetRowEveryGuild(g, u, r) ==
    [gg \in DOMAIN guildUsers |-> [guildUsers[gg] EXCEPT ![u] = r]]

SetRow(g, u, r) == [guildUsers EXCEPT ![g][u] = r]
\* INSERT OR IGNORE INTO users_<guildId>: a new row gets the next rowid, and
\* no statement deletes a row or changes a rowid; gu is the table contents
\* after the call
RowidsWith(gu) ==
    IF ~rowids.tracked THEN rowids
    ELSE [rowids EXCEPT !.order =
            [g \in DOMAIN gu |->
                LET new == {u \in DOMAIN gu[g] :
                              guildUsers[g][u] = NoRow /\ gu[g][u] # NoRow}
                IN  IF new = {} THEN rowids.order[g]
                    ELSE Append(rowids.order[g], CHOOSE u \in new : TRUE)]]

Bump(f, g, u) == [f EXCEPT ![g][u] = IF @ < 2 THEN @ + 1 ELSE @]
Inserted(g, u) == IF Row(g, u) = NoRow THEN Bump(rowInserts, g, u) ELSE rowInserts

\* --------------------------------------------------- schema provisioning
\* the guild ids handed to the store, spelled out character by character
IdChars ==
    ("111" :> <<"1", "1", "1">>) @@ ("222" :> <<"2", "2", "2">>)
    @@ ("global" :> <<"g", "l", "o", "b", "a", "l">>)
    @@ ("12a" :> <<"1", "2", "a">>) @@ ("" :> <<>>)

Digits == {"0", "1", "2", "3", "4", "5", "6", "7", "8", "9"}

\* variant: /^\d/ instead of /^\d+$/
IsNumericIdPrefix(id) ==
    Len(IdChars[id]) > 0 /\ IdChars[id][1] \in Digits

\* /^\d+$/.test(guildId)
IsNumericId(id) ==
    /\ Len(IdChars[id]) > 0
    /\ \A i \in 1..Len(IdChars[id]) : IdChars[id][i] \in Digits

\* the statement of ensureGuildTables that a storage error interrupts
Faults == {"none", "settings", "users", "idx_xp", "idx_level"}

\* variant: createCoreTables without the users_global statement
CoreTablesSettingsOnly == {<<"settings", "global">>}

\* what createCoreTables leaves in the file: users_global and settings_global
CoreTables == {<<"users", "global">>, <<"settings", "global">>}

\* settings_<id>, users_<id> and the two indexes on users_<id>
GuildObjects(g) ==
    {<<"settings", g>>, <<"users", g>>, <<"idx_xp", g>>, <<"idx_level", g>>}

\* what the two db.exec calls of ensureGuildTables have created when the
\* statement named by fault throws
CreatedBefore(g, fault) ==
    IF fault = "settings" THEN {}
    ELSE IF fault = "users" THEN {<<"settings", g>>}
    ELSE IF fault = "idx_xp" THEN {<<"settings", g>>, <<"users", g>>}
    ELSE IF fault = "idx_level"
         THEN {<<"settings", g>>, <<"users", g>>, <<"idx_xp", g>>}
    ELSE GuildObjects(g)

EnsureOutcome(t, c, e, n) ==
    [tables |-> t, cache |-> c, error |-> e, ddl |-> n]

\* variant: the cache entry is written before the tables are created
EnsureGuildTablesCacheFirst(t, c, g, fault) ==
    IF g = "global" THEN
        IF fault = "settings" THEN EnsureOutcome(t, c, "SqliteError", 1)
        ELSE EnsureOutcome(t \cup {<<"settings", "global">>}, c, "none", 1)
    ELSE IF ~IsNumericId(g) THEN EnsureOutcome(t, c, "InvalidGuildId", 0)
    ELSE IF g \in c THEN EnsureOutcome(t, c, "none", 0)
    ELSE IF fault # "none"
         THEN EnsureOutcome(t \cup CreatedBefore(g, fault), c \cup {g}, "SqliteError",
                            IF fault = "settings" THEN 1 ELSE 2)
    ELSE EnsureOutcome(t \cup GuildObjects(g), c \cup {g}, "none", 2)

\* variant: no look at the cache, the statements are issued on every call
EnsureGuildTablesNoCache(t, c, g, fault) ==
    IF g = "global" THEN
        IF fault = "settings" THEN EnsureOutcome(t, c, "SqliteError", 1)
        ELSE EnsureOutcome(t \cup {<<"settings", "global">>}, c, "none", 1)
    ELSE IF ~IsNumericId(g) THEN EnsureOutcome(t, c, "InvalidGuildId", 0)
    ELSE IF fault # "none"
         THEN EnsureOutcome(t \cup CreatedBefore(g, fault), c, "SqliteError",
                            IF fault = "settings" THEN 1 ELSE 2)
    ELSE EnsureOutcome(t \cup GuildObjects(g), c \cup {g}, "none", 2)

\* ensureGuildTables(guildId) on the tables t and the cache c: the tables and
\* the cache it leaves, the error it throws ("none": it returns) and the
\* number of db.exec calls it issued
EnsureGuildTablesOn(t, c, g, fault) ==
    IF g = "global" THEN
        IF fault = "settings" THEN EnsureOutcome(t, c, "SqliteError", 1)
        ELSE EnsureOutcome(t \cup {<<"settings", "global">>}, c, "none", 1)
    ELSE IF ~IsNumericId(g) THEN EnsureOutcome(t, c, "InvalidGuildId", 0)
    ELSE IF g \in c THEN EnsureOutcome(t, c, "none", 0)
    ELSE IF fault # "none"
         THEN EnsureOutcome(t \cup CreatedBefore(g, fault), c, "SqliteError",
                            IF fault = "settings" THEN 1 ELSE 2)
    ELSE EnsureOutcome(t \cup GuildObjects(g), c \cup {g}, "none", 2)

\* ensureGuildTables as the handlers of Spec meet it: a numeric guild id and
\* no storage error
EnsureGuildTables(g) ==
    /\ tables' = EnsureGuildTablesOn(tables, guildTablesCache, g, "none").tables
    /\ guildTablesCache' =
           EnsureGuildTablesOn(tables, guildTablesCache, g, "none").cache

\* ------------------------------------------------------------ settings
Keys == {"k1"}

\* text is a sequence of lexemes: punctuation, a bare word (true, 12, abc)
\* or a double-quoted word
Punct(s) == [k |-> "p", s |-> s]
Word(s) == [k |-> "w", s |-> s]
Quoted(s) == [k |-> "q", s |-> s]

\* JavaScript values handed to and returned by the settings methods; a string
\* is held as its text, the members of an object in insertion order
JBool(b) == [t |-> "bool", b |-> b]
JNum(n) == [t |-> "num", n |-> n]
JNull == [t |-> "null"]
JStr(text) == [t |-> "str", s |-> text]
JArr(items) == [t |-> "arr", items |-> items]
JObj(members) == [t |-> "obj", members |-> members]
Member(key, v) == [key |-> key, value |-> v]

\* the numbers whose decimal spelling JSON.parse reads back here
Numerals == 0..9
NumberWords == {ToString(n) : n \in Numerals}
NumberOf(s) == CHOOSE n \in Numerals : ToString(n) = s

\* JSON.stringify(value)
RECURSIVE Stringify(_), StringifyItems(_, _), StringifyMembers(_, _)
Stringify(v) ==
    CASE v.t = "bool" -> <<Word(IF v.b THEN "true" ELSE "false")>>
      [] v.t = "num" -> <<Word(ToString(v.n))>>
      [] v.t = "null" -> <<Word("null")>>
      [] v.t = "str" -> <<Quoted(IF v.s = <<>> THEN "" ELSE v.s[1].s)>>
      [] v.t = "arr" ->
            <<Punct("[")>> \o StringifyItems(v.items, 1) \o <<Punct("]")>>
      [] v.t = "obj" ->
            <<Punct("{")>> \o StringifyMembers(v.members, 1) \o <<Punct("}")>>

StringifyItems(items, i) ==
    IF i > Len(items) THEN <<>>
    ELSE (IF i > 1 THEN <<Punct(",")>> ELSE <<>>)
         \o Stringify(items[i]) \o StringifyItems(items, i + 1)

StringifyMembers(members, i) ==
    IF i > Len(members) THEN <<>>
    ELSE (IF i > 1 THEN <<Punct(",")>> ELSE <<>>)
         \o <<Quoted(members[i].key), Punct(":")>>
         \o Stringify(members[i].value) \o StringifyMembers(members, i + 1)

\* JSON.parse(text): a SyntaxError is ok = FALSE
NoParse == [ok |-> FALSE]
Parsed(v, next) == [ok |-> TRUE, v |-> v, next |-> next]

RECURSIVE ParseValue(_, _), ParseItems(_, _, _), ParseMembers(_, _, _)
ParseValue(tx, i) ==
    IF i > Len(tx) THEN NoParse
    ELSE IF tx[i] = Word("true") THEN Parsed(JBool(TRUE), i + 1)
    ELSE IF tx[i] = Word("false") THEN Parsed(JBool(FALSE), i + 1)
    ELSE IF tx[i] = Word("null") THEN Parsed(JNull, i + 1)
    ELSE IF tx[i].k = "w" /\ tx[i].s \in NumberWords
         THEN Parsed(JNum(NumberOf(tx[i].s)), i + 1)
    ELSE IF tx[i].k = "q"
         THEN Parsed(JStr(IF tx[i].s = "" THEN <<>> ELSE <<Word(tx[i].s)>>), i + 1)
    ELSE IF tx[i] = Punct("[") THEN
         IF i + 1 <= Len(tx) /\ tx[i + 1] = Punct("]")
         THEN Parsed(JArr(<<>>), i + 2)
         ELSE ParseItems(tx, i + 1, <<>>)
    ELSE IF tx[i] = Punct("{") THEN
         IF i + 1 <= Len(tx) /\ tx[i + 1] = Punct("}")
         THEN Parsed(JObj(<<>>), i + 2)
         ELSE ParseMembers(tx, i + 1, <<>>)
    ELSE NoParse

ParseItems(tx, i, acc) ==
    LET e == ParseValue(tx, i) IN
    IF ~e.ok \/ e.next > Len(tx) THEN NoParse
    ELSE IF tx[e.next] = Punct(",")
         THEN ParseItems(tx, e.next + 1, Append(acc, e.v))
    ELSE IF tx[e.next] = Punct("]")
         THEN Parsed(JArr(Append(acc, e.v)), e.next + 1)
    ELSE NoParse

ParseMembers(tx, i, acc) ==
    IF i + 1 > Len(tx) \/ tx[i].k # "q" \/ tx[i + 1] # Punct(":") THEN NoParse
    ELSE LET e == ParseValue(tx, i + 2) IN
         IF ~e.ok \/ e.next > Len(tx) THEN NoParse
         ELSE IF tx[e.next] = Punct(",")
              THEN ParseMembers(tx, e.next + 1, Append(acc, Member(tx[i].s, e.v)))
         ELSE IF tx[e.next] = Punct("}")
              THEN Parsed(JObj(Append(acc, Member(tx[i].s, e.v))), e.next + 1)
         ELSE NoParse

JsonParse(tx) ==
    IF ParseValue(tx, 1).ok /\ ParseValue(tx, 1).next = Len(tx) + 1
    THEN ParseValue(tx, 1)
    ELSE NoParse

\* a setting_value cell: text, or NULL
Cell(text) == [value |-> text]
NullCell == [sqlnull |-> TRUE]

\* updateGuildSetting / setGlobalSetting: objects and arrays through
\* JSON.stringify, booleans through toString, everything else bound as it is
\* (a number is bound as a double and lands in the TEXT column as the text of
\* a REAL, 5 as 5.0; null lands as NULL)
ValueToStore(v) ==
    IF v.t \in {"arr", "obj"} THEN Cell(Stringify(v))
    ELSE IF v.t = "bool" THEN Cell(<<Word(IF v.b THEN "true" ELSE "false")>>)
    ELSE IF v.t = "str" THEN Cell(v.s)
    ELSE IF v.t = "num" THEN Cell(<<Word(ToString(v.n) \o ".0")>>)
    ELSE NullCell

\* variant: the 'true' / 'false' comparison is missing
DecodeTextNoBoolean(tx) ==
    IF tx # <<>> /\ (tx[1] = Punct("{") \/ tx[1] = Punct("["))
    THEN IF JsonParse(tx).ok THEN JsonParse(tx).v ELSE JStr(tx)
    ELSE JStr(tx)

\* getGuildSetting / getGlobalSetting on the text read: JSON.parse when it
\* starts with { or [ (the text itself when that throws), the booleans for
\* 'true' and 'false', the text otherwise
DecodeText(tx) ==
    IF tx # <<>> /\ (tx[1] = Punct("{") \/ tx[1] = Punct("["))
    THEN IF JsonParse(tx).ok THEN JsonParse(tx).v ELSE JStr(tx)
    ELSE IF tx = <<Word("true")>> THEN JBool(TRUE)
    ELSE IF tx = <<Word("false")>> THEN JBool(FALSE)
    ELSE JStr(tx)

\* what getGuildSetting returns for the cell found: the default when there is
\* no row, and when setting_value is NULL (startsWith throws a TypeError that
\* the catch block turns into the default)
ReadSetting(cell, defaultValue) ==
    IF cell = NoRow \/ cell = NullCell THEN defaultValue
    ELSE DecodeText(cell.value)

\* what getAllGuildSettings returns for the rows of a table: the decoded value
\* per key, or {} when one setting_value is NULL
ReadAllSettings(rows) ==
    IF \E k \in DOMAIN rows : rows[k] = NullCell THEN <<>>
    ELSE [k \in {j \in DOMAIN rows : rows[j] # NoRow} |-> DecodeText(rows[k].value)]

\* nothing issued yet
NoCall == [op |-> "none", guild |-> "", ddl |-> 0, touched |-> {},
           error |-> "none", threw |-> FALSE]

\* the store after construction, for the guild ids gs and the setting keys ks
\* that the calls will name: an empty database with the core tables
\* the state after the constructor, for configuration c, guild ids gs, user
\* ids us and setting keys ks; track says whether the rowid order of the user
\* rows is recorded (it is where a specification reads rows in their order)
\* no database file of the single-table class is open
NoStore == [shape |-> "none"]

\* cooldowns.has(userId) is false
NoCooldown == 0 - 1

\* new XPCooldownManager() of a new process: the map is empty; the clock
\* and the record of invocations of earlier runs (awarded) stay, thisRun
\* records the invocations of the current run
NewProcess(cd) ==
    [cd EXCEPT !.cooldowns = [u \in DOMAIN cd.cooldowns |-> NoCooldown],
               !.thisRun = [u \in DOMAIN cd.thisRun |-> NoCooldown]]

\* the instance after its constructor: initialize has opened the file and
\* setupAutoSave has armed the one checkpoint interval.  db and saveInterval
\* are the fields of that name, intervals the interval timers alive in the
\* event loop; closing, failed, passive, full, closes and log are history:
\* close() was entered, a statement of close() threw, checkpoints run so
\* far, calls of close(), and what the last call did.
Connected ==
    [db |-> "open", saveInterval |-> TRUE, intervals |-> 1, closing |-> FALSE,
     failed |-> FALSE, passive |-> 0, full |-> 0, closes |-> 0, log |-> <<>>]

InitFor(c, gs, us, ks, track) ==
    /\ cfg = c
    /\ tables = CoreTables
    /\ guildTablesCache = {}
    /\ usersGlobal = {}
    /\ guildUsers = [g \in gs |-> [u \in us |-> NoRow]]
    /\ timers = [g \in gs |-> [u \in us |-> 0]]
    /\ reply = [op |-> "none"]
    /\ calls = [g \in gs |-> [u \in us |-> [issued |-> 0, returned |-> 0]]]
    /\ rowInserts = [g \in gs |-> [u \in us |-> 0]]
    /\ openRequest = [g \in gs |-> [u \in us |-> FALSE]]
    /\ lastSacrifice = [g \in gs |-> [u \in us |-> "none"]]
    /\ settings = [t \in gs \cup {"global"} |-> [k \in ks |-> NoRow]]
    /\ bannerUrl = [g \in gs |-> [u \in us |-> "null"]]
    /\ io = NoCall
    /\ rowids = [tracked |-> track, order |-> [g \in gs |-> <<>>]]
    /\ legacy = NoStore
    /\ blacklist = [global |-> [u \in us |-> FALSE],
                    guild |-> [g \in gs |-> [u \in us |-> FALSE]]]
    /\ conn = Connected
    /\ cooldown = [now |-> 0, cooldowns |-> [u \in us |-> NoCooldown],
                   awarded |-> [u \in us |-> NoCooldown],
                   thisRun |-> [u \in us |-> NoCooldown]]

InitOver(c, gs, ks) == InitFor(c, gs, Users, ks, FALSE)

InitWith(c) == InitOver(c, Guilds, Keys)

Init == InitWith(ShippedConfig)

InitCfg == \E c \in Configs : InitWith(c)

\* ------------------------------------------------------------- actions
\* ensureGuildUser(userId, guildId) called on its own
EnsureGuildUser(g, u) ==
    /\ EnsureGuildTables(g)
    /\ guildUsers' = SetRow(g, u, EnsureGuildUserRow(Row(g, u)))
    /\ rowInserts' = Inserted(g, u)
    /\ reply' = [op |-> "ensureGuildUser", guild |-> g, user |-> u,
                 result |-> EnsureGuildUserRow(Row(g, u))]
    /\ UNCHANGED <<cfg, usersGlobal, timers, calls, openRequest, lastSacrifice>>
    /\ UNCHANGED storeVars
    /\ rowids' = RowidsWith(guildUsers')
    /\ UNCHANGED <<legacy, blacklist, conn, cooldown>>

\* the store part of addXP(userId, xpAmount, guildId)
AddXPStore(g, u, xpAmount) ==
    LET r == EnsureGuildUserRow(Row(g, u)) IN
    /\ EnsureGuildTables(g)
    /\ guildUsers' = SetRow(g, u, AddXPRow(cfg, r, xpAmount))
    /\ rowInserts' = Inserted(g, u)
    /\ reply' = [op |-> "addXP", guild |-> g, user |-> u, amount |-> xpAmount,
                 result |-> AddXPResult(cfg, r, xpAmount)]
    /\ UNCHANGED <<cfg, usersGlobal, timers, openRequest, lastSacrifice>>
    /\ UNCHANGED storeVars
    /\ rowids' = RowidsWith(guildUsers')
    /\ UNCHANGED <<legacy, blacklist, conn>>

\* addXP as the message handler calls it
AddXP(g, u, xpAmount) ==
    /\ EnsureGuildUserRow(Row(g, u)).xp + xpAmount <= XpCap
    /\ AddXPStore(g, u, xpAmount)
    /\ UNCHANGED <<calls, cooldown>>

\* the level-sacrifice handler: sacrificeUser, then setTimeout when the
\* answer asks for confirmation
SacrificeUserWithin(g, u, maxTimers) ==
    LET r == EnsureGuildUserRow(Row(g, u))
        outcome == SacrificeOutcome(cfg, r)
    IN
    /\ outcome = "success" => r.sacrifices < MaxSacrifices
    /\ outcome = "needsConfirmation" => timers[g][u] < maxTimers
    /\ EnsureGuildTables(g)
    /\ usersGlobal' = usersGlobal \cup {u}
    /\ guildUsers' = SetRow(g, u, SacrificeUserRow(cfg, r))
    /\ rowInserts' = Inserted(g, u)
    /\ timers' = IF outcome = "needsConfirmation"
                 THEN [timers EXCEPT ![g][u] = @ + 1] ELSE timers
    /\ reply' = [op |-> "sacrificeUser", guild |-> g, user |-> u,
                 result |-> IF outcome = "success"
                            THEN [outcome |-> outcome,
                                  sacrificeCount |-> r.sacrifices + 1]
                            ELSE [outcome |-> outcome]]
    /\ openRequest' = [openRequest EXCEPT ![g][u] =
                          IF outcome = "needsConfirmation" THEN TRUE
                          ELSE IF outcome = "success" THEN FALSE ELSE @]
    /\ lastSacrifice' = [lastSacrifice EXCEPT ![g][u] = outcome]
    /\ UNCHANGED <<cfg, calls>>
    /\ UNCHANGED storeVars
    /\ rowids' = RowidsWith(guildUsers')
    /\ UNCHANGED <<legacy, blacklist, conn, cooldown>>

SacrificeUser(g, u) == SacrificeUserWithin(g, u, MaxTimers)

\* the setTimeout callback of the handler: resetSacrificePending
ResetSacrificePending(g, u) ==
    /\ timers[g][u] > 0
    /\ timers' = [timers EXCEPT ![g][u] = @ - 1]
    /\ EnsureGuildTables(g)
    /\ guildUsers' = SetRow(g, u, ResetPendingRow(Row(g, u)))
    /\ openRequest' = [openRequest EXCEPT ![g][u] = FALSE]
    /\ reply' = [op |-> "resetSacrificePending", guild |-> g, user |-> u,
                 result |-> TRUE]
    /\ UNCHANGED <<cfg, usersGlobal, calls, rowInserts, lastSacrifice>>
    /\ UNCHANGED storeVars
    /\ rowids' = RowidsWith(guildUsers')
    /\ UNCHANGED <<legacy, blacklist, conn, cooldown>>

\* isEligibleForSacrificePrompt(userId, guildId): getUser creates missing rows
EligibleForSacrificePrompt(g, u) ==
    LET r == EnsureGuildUserRow(Row(g, u)) IN
    /\ EnsureGuildTables(g)
    /\ usersGlobal' = usersGlobal \cup {u}
    /\ guildUsers' = SetRow(g, u, r)
    /\ rowInserts' = Inserted(g, u)
    /\ reply' = [op |-> "isEligibleForSacrificePrompt", guild |-> g, user |-> u,
                 result |-> IsEligibleForSacrificePrompt(cfg, r)]
    /\ UNCHANGED <<cfg, timers, calls, openRequest, lastSacrifice>>
    /\ UNCHANGED storeVars
    /\ rowids' = RowidsWith(guildUsers')
    /\ UNCHANGED <<legacy, blacklist, conn, cooldown>>

Next ==
    \/ \E g \in Guilds, u \in Users : EnsureGuildUser(g, u)
    \/ \E g \in Guilds, u \in Users, a \in XpAmounts : AddXP(g, u, a)
    \/ \E g \in Guilds, u \in Users : SacrificeUser(g, u)
    \/ \E g \in Guilds, u \in Users : ResetSacrificePending(g, u)
    \/ \E g \in Guilds, u \in Users : EligibleForSacrificePrompt(g, u)

Spec == Init /\ [][Next]_vars

\* the same operations under every configuration of Configs
SpecCfg == InitCfg /\ [][Next]_vars

\* ---------------------------------------- concurrent addXP(u, 1, g) calls
\* a message event for u is queued
CallAddXP(g, u) ==
    /\ calls[g][u].issued < MaxCalls
    /\ calls' = [calls EXCEPT ![g][u].issued = @ + 1]
    /\ UNCHANGED <<cfg, tables, guildTablesCache, usersGlobal, guildUsers,
                   timers, reply, rowInserts, openRequest, lastSacrifice>>
    /\ UNCHANGED storeVars
    /\ UNCHANGED <<rowids, legacy, blacklist, conn, cooldown>>

\* a queued event is handled: addXP(u, 1, g) runs and returns
ReturnAddXP(g, u) ==
    /\ calls[g][u].returned < calls[g][u].issued
    /\ calls' = [calls EXCEPT ![g][u].returned = @ + 1]
    /\ AddXPStore(g, u, 1)
    /\ UNCHANGED cooldown

NextCalls ==
    \/ \E g \in Guilds, u \in Users : CallAddXP(g, u)
    \/ \E g \in Guilds, u \in Users : ReturnAddXP(g, u)

SpecCalls == Init /\ [][NextCalls]_vars

\* ------------------------------------------ process exit and a new start
RestartUsers == {"u1"}

\* variant: start-up clears every sacrifice_pending flag left behind
RestartClearsPending ==
    /\ guildTablesCache' = {}
    /\ timers' = [g \in DOMAIN timers |-> [u \in DOMAIN timers[g] |-> 0]]
    /\ guildUsers' = [g \in DOMAIN guildUsers |->
                         [u \in DOMAIN guildUsers[g] |->
                             ResetPendingRow(guildUsers[g][u])]]
    /\ reply' = [op |-> "restart"]
    /\ UNCHANGED <<cfg, tables, usersGlobal, calls, rowInserts, openRequest,
                   lastSacrifice>>
    /\ UNCHANGED storeVars
    /\ rowids' = RowidsWith(guildUsers')
    /\ UNCHANGED <<legacy, blacklist, conn>>
    /\ cooldown' = NewProcess(cooldown)

\* the process stops and is started again: the setTimeout callbacks die with
\* it, the constructor makes an empty guildTablesCache, initialize() runs
\* CREATE TABLE IF NOT EXISTS for the core tables; the database file is kept
Restart ==
    /\ guildTablesCache' = {}
    /\ timers' = [g \in DOMAIN timers |-> [u \in DOMAIN timers[g] |-> 0]]
    /\ reply' = [op |-> "restart"]
    /\ UNCHANGED <<cfg, tables, usersGlobal, guildUsers, calls, rowInserts,
                   openRequest, lastSacrifice>>
    /\ UNCHANGED storeVars
    /\ UNCHANGED <<rowids, legacy, blacklist, conn>>
    /\ cooldown' = NewProcess(cooldown)

NextRestart ==
    \/ \E g \in Guilds, u \in RestartUsers, a \in XpAmounts : AddXP(g, u, a)
    \/ \E g \in Guilds, u \in RestartUsers : SacrificeUser(g, u)
    \/ \E g \in Guilds, u \in RestartUsers : ResetSacrificePending(g, u)
    \/ \E g \in Guilds, u \in RestartUsers : EligibleForSacrificePrompt(g, u)
    \/ Restart

SpecRestart == Init /\ [][NextRestart]_vars

\* ------------------- store calls with any guild id and storage errors
\* ids that are neither 'global' nor a run of digits
MalformedIds == {"12a", ""}
TenantIds == Guilds \cup {"global"} \cup MalformedIds
StoreUsers == {"u1"}
\* one amount that takes a new row to the highest level and, being above
\* XpCap - 5, cannot be added again after a sacrifice
StoreXp == {30010}
Urls == {"b1"}

\* variant: the error thrown by ensureGuildTables is dropped and the method
\* goes on
LedgerErrorDropsEnsure(e, g) ==
    IF g = "global" THEN "SqliteError" ELSE "none"

\* the error a user-table method ends with: the one ensureGuildTables threw,
\* or, for 'global', the one db.prepare throws on a statement naming a column
\* (xp, sacrifice_pending, banner_url) that users_global does not have
LedgerError(e, g) ==
    IF e.error # "none" THEN e.error
    ELSE IF g = "global" THEN "SqliteError"
    ELSE "none"

\* ensureGuildTables(guildId) called on its own
EnsureTenant(g, fault) ==
    LET e == EnsureGuildTablesOn(tables, guildTablesCache, g, fault) IN
    /\ tables' = e.tables
    /\ guildTablesCache' = e.cache
    /\ reply' = [op |-> "ensureGuildTables", guild |-> g,
                 result |-> IF e.error = "none" THEN "returns" ELSE "throws"]
    /\ io' = [op |-> "ensureGuildTables", guild |-> g, ddl |-> e.ddl,
              touched |-> {}, error |-> e.error, threw |-> e.error # "none"]
    /\ UNCHANGED <<cfg, usersGlobal, guildUsers, timers, calls, rowInserts,
                   openRequest, lastSacrifice, settings, bannerUrl>>
    /\ UNCHANGED <<rowids, legacy, blacklist, conn, cooldown>>

\* addXP(userId, xpAmount, guildId): the catch block rethrows
StoreAddXP(g, u, xpAmount, fault) ==
    LET e == EnsureGuildTablesOn(tables, guildTablesCache, g, fault)
        err == LedgerError(e, g)
        r == EnsureGuildUserRow(Row(g, u))
    IN
    /\ err = "none" => r.xp + xpAmount <= XpCap
    /\ tables' = e.tables
    /\ guildTablesCache' = e.cache
    /\ guildUsers' = IF err = "none" THEN SetRow(g, u, AddXPRow(cfg, r, xpAmount))
                     ELSE guildUsers
    /\ rowInserts' = IF err = "none" THEN Inserted(g, u) ELSE rowInserts
    /\ reply' = [op |-> "addXP", guild |-> g, user |-> u, amount |-> xpAmount,
                 result |-> IF err = "none" THEN AddXPResult(cfg, r, xpAmount)
                            ELSE "throws"]
    /\ io' = [op |-> "addXP", guild |-> g, ddl |-> e.ddl,
              touched |-> IF err = "none" THEN {<<"users", g>>} ELSE {},
              error |-> err, threw |-> err # "none"]
    /\ UNCHANGED <<cfg, usersGlobal, timers, calls, openRequest, lastSacrifice,
                   settings, bannerUrl>>
    /\ rowids' = RowidsWith(guildUsers')
    /\ UNCHANGED <<legacy, blacklist, conn, cooldown>>

\* sacrificeUser(userId, guildId): ensureGuildTables, getUser (ensureGlobalUser,
\* then ensureGuildUser), the reset or the flag; the catch block rethrows
StoreSacrificeUser(g, u, fault) ==
    LET e == EnsureGuildTablesOn(tables, guildTablesCache, g, fault)
        err == LedgerError(e, g)
        r == EnsureGuildUserRow(Row(g, u))
    IN
    /\ (err = "none" /\ SacrificeOutcome(cfg, r) = "success") =>
           r.sacrifices < MaxSacrifices
    /\ tables' = e.tables
    /\ guildTablesCache' = e.cache
    /\ usersGlobal' = IF e.error = "none" THEN usersGlobal \cup {u}
                      ELSE usersGlobal
    /\ guildUsers' = IF err = "none" THEN SetRow(g, u, SacrificeUserRow(cfg, r))
                     ELSE guildUsers
    /\ rowInserts' = IF err = "none" THEN Inserted(g, u) ELSE rowInserts
    /\ reply' = [op |-> "sacrificeUser", guild |-> g, user |-> u,
                 result |-> IF err # "none" THEN [outcome |-> "throws"]
                            ELSE IF SacrificeOutcome(cfg, r) = "success"
                            THEN [outcome |-> "success",
                                  sacrificeCount |-> r.sacrifices + 1]
                            ELSE [outcome |-> SacrificeOutcome(cfg, r)]]
    /\ io' = [op |-> "sacrificeUser", guild |-> g, ddl |-> e.ddl,
              touched |-> IF e.error # "none" THEN {}
                          ELSE IF err # "none" THEN {<<"users", "global">>}
                          ELSE {<<"users", "global">>, <<"users", g>>},
              error |-> err, threw |-> err # "none"]
    /\ UNCHANGED <<cfg, timers, calls, openRequest, lastSacrifice, settings,
                   bannerUrl>>
    /\ rowids' = RowidsWith(guildUsers')
    /\ UNCHANGED <<legacy, blacklist, conn, cooldown>>

\* resetSacrificePending(userId, guildId): the catch block returns false
StoreResetSacrificePending(g, u, fault) ==
    LET e == EnsureGuildTablesOn(tables, guildTablesCache, g, fault)
        err == LedgerError(e, g)
    IN
    /\ tables' = e.tables
    /\ guildTablesCache' = e.cache
    /\ guildUsers' = IF err = "none" THEN SetRow(g, u, ResetPendingRow(Row(g, u)))
                     ELSE guildUsers
    /\ reply' = [op |-> "resetSacrificePending", guild |-> g, user |-> u,
                 result |-> err = "none"]
    /\ io' = [op |-> "resetSacrificePending", guild |-> g, ddl |-> e.ddl,
              touched |-> IF err = "none" THEN {<<"users", g>>} ELSE {},
              error |-> err, threw |-> FALSE]
    /\ UNCHANGED <<cfg, usersGlobal, timers, calls, rowInserts, openRequest,
                   lastSacrifice, settings, bannerUrl>>
    /\ rowids' = RowidsWith(guildUsers')
    /\ UNCHANGED <<legacy, blacklist, conn, cooldown>>

\* getUserBanner(userId, guildId): ensureGuildTables, ensureGuildUser, SELECT
\* banner_url; the catch block returns null
GetUserBanner(g, u, fault) ==
    LET e == EnsureGuildTablesOn(tables, guildTablesCache, g, fault)
        err == LedgerError(e, g)
    IN
    /\ tables' = e.tables
    /\ guildTablesCache' = e.cache
    /\ guildUsers' = IF err = "none" THEN SetRow(g, u, EnsureGuildUserRow(Row(g, u)))
                     ELSE guildUsers
    /\ rowInserts' = IF err = "none" THEN Inserted(g, u) ELSE rowInserts
    /\ reply' = [op |-> "getUserBanner", guild |-> g, user |-> u,
                 result |-> IF err = "none" THEN bannerUrl[g][u] ELSE "null"]
    /\ io' = [op |-> "getUserBanner", guild |-> g, ddl |-> e.ddl,
              touched |-> IF err = "none" THEN {<<"users", g>>} ELSE {},
              error |-> err, threw |-> FALSE]
    /\ UNCHANGED <<cfg, usersGlobal, timers, calls, openRequest, lastSacrifice,
                   settings, bannerUrl>>
    /\ rowids' = RowidsWith(guildUsers')
    /\ UNCHANGED <<legacy, blacklist, conn, cooldown>>

\* setUserBanner(userId, guildId, bannerUrl): ensureGuildTables,
\* ensureGuildUser, UPDATE banner_url; the catch block returns false
SetUserBanner(g, u, url, fault) ==
    LET e == EnsureGuildTablesOn(tables, guildTablesCache, g, fault)
        err == LedgerError(e, g)
    IN
    /\ tables' = e.tables
    /\ guildTablesCache' = e.cache
    /\ guildUsers' = IF err = "none" THEN SetRow(g, u, EnsureGuildUserRow(Row(g, u)))
                     ELSE guildUsers
    /\ rowInserts' = IF err = "none" THEN Inserted(g, u) ELSE rowInserts
    /\ bannerUrl' = IF err = "none" THEN [bannerUrl EXCEPT ![g][u] = url]
                    ELSE bannerUrl
    /\ reply' = [op |-> "setUserBanner", guild |-> g, user |-> u,
                 result |-> err = "none"]
    /\ io' = [op |-> "setUserBanner", guild |-> g, ddl |-> e.ddl,
              touched |-> IF err = "none" THEN {<<"users", g>>} ELSE {},
              error |-> err, threw |-> FALSE]
    /\ UNCHANGED <<cfg, usersGlobal, timers, calls, openRequest, lastSacrifice,
                   settings>>
    /\ rowids' = RowidsWith(guildUsers')
    /\ UNCHANGED <<legacy, blacklist, conn, cooldown>>

\* the value and the default handed to the settings methods in SpecStore
StoreValues == {JBool(TRUE)}
StoreDefault == JStr(<<Word("dflt")>>)

\* the table check a settings method makes before its statement: CREATE TABLE
\* IF NOT EXISTS settings_global for 'global' (getGlobalSetting and
\* setGlobalSetting, through fixGuildSettingCompatibility), the method's own
\* /^\d+$/ test, then ensureGuildTables
SettingsEnsure(g, fault) ==
    IF g # "global" /\ ~IsNumericId(g)
    THEN EnsureOutcome(tables, guildTablesCache, "InvalidGuildId", 0)
    ELSE EnsureGuildTablesOn(tables, guildTablesCache, g, fault)

\* getGuildSetting(guildId, settingKey, defaultValue): every failure ends in
\* the default
GetGuildSetting(g, k, d, fault) ==
    LET e == SettingsEnsure(g, fault)
        err == IF e.error # "none" THEN e.error
               ELSE IF settings[g][k] = NullCell THEN "TypeError"
               ELSE "none"
    IN
    /\ tables' = e.tables
    /\ guildTablesCache' = e.cache
    /\ reply' = [op |-> "getGuildSetting", guild |-> g, key |-> k,
                 default |-> d,
                 result |-> IF e.error = "none" THEN ReadSetting(settings[g][k], d)
                            ELSE d]
    /\ io' = [op |-> "getGuildSetting", guild |-> g, ddl |-> e.ddl,
              touched |-> IF e.error = "none" THEN {<<"settings", g>>} ELSE {},
              error |-> err, threw |-> FALSE]
    /\ UNCHANGED <<cfg, usersGlobal, guildUsers, timers, calls, rowInserts,
                   openRequest, lastSacrifice, settings, bannerUrl>>
    /\ UNCHANGED <<rowids, legacy, blacklist, conn, cooldown>>

\* getAllGuildSettings(guildId): every failure ends in {}
GetAllGuildSettings(g, fault) ==
    LET e == EnsureGuildTablesOn(tables, guildTablesCache, g, fault)
        err == IF e.error # "none" THEN e.error
               ELSE IF \E k \in DOMAIN settings[g] : settings[g][k] = NullCell
                    THEN "TypeError"
               ELSE "none"
    IN
    /\ tables' = e.tables
    /\ guildTablesCache' = e.cache
    /\ reply' = [op |-> "getAllGuildSettings", guild |-> g,
                 result |-> IF e.error = "none" THEN ReadAllSettings(settings[g])
                            ELSE <<>>]
    /\ io' = [op |-> "getAllGuildSettings", guild |-> g, ddl |-> e.ddl,
              touched |-> IF e.error = "none" THEN {<<"settings", g>>} ELSE {},
              error |-> err, threw |-> FALSE]
    /\ UNCHANGED <<cfg, usersGlobal, guildUsers, timers, calls, rowInserts,
                   openRequest, lastSacrifice, settings, bannerUrl>>
    /\ UNCHANGED <<rowids, legacy, blacklist, conn, cooldown>>

\* updateGuildSetting(guildId, settingKey, settingValue): for 'global'
\* setGlobalSetting, whose catch block returns false; otherwise the upsert
\* into settings_<guildId>, with every error rethrown
UpdateGuildSetting(g, k, v, fault) ==
    LET e == SettingsEnsure(g, fault) IN
    /\ tables' = e.tables
    /\ guildTablesCache' = e.cache
    /\ settings' = IF e.error = "none"
                   THEN [settings EXCEPT ![g][k] = ValueToStore(v)]
                   ELSE settings
    /\ reply' = [op |-> "updateGuildSetting", guild |-> g, key |-> k, arg |-> v,
                 result |-> IF e.error # "none" /\ g # "global" THEN "throws"
                            ELSE IF e.error = "none" THEN "success"
                            ELSE "no success"]
    /\ io' = [op |-> "updateGuildSetting", guild |-> g, ddl |-> e.ddl,
              touched |-> IF e.error = "none" THEN {<<"settings", g>>} ELSE {},
              error |-> e.error, threw |-> e.error # "none" /\ g # "global"]
    /\ UNCHANGED <<cfg, usersGlobal, guildUsers, timers, calls, rowInserts,
                   openRequest, lastSacrifice, bannerUrl>>
    /\ UNCHANGED <<rowids, legacy, blacklist, conn, cooldown>>

\* variant: the DELETE has no WHERE clause
DeleteRowEveryKey(rows, k) == [j \in DOMAIN rows |-> NoRow]

\* DELETE FROM settings_<guildId> WHERE setting_key = ?
DeleteRow(rows, k) == [rows EXCEPT ![k] = NoRow]

\* deleteGuildSetting(guildId, settingKey): ensureGuildTables, DELETE; the
\* catch block rethrows
DeleteGuildSetting(g, k, fault) ==
    LET e == EnsureGuildTablesOn(tables, guildTablesCache, g, fault) IN
    /\ tables' = e.tables
    /\ guildTablesCache' = e.cache
    /\ settings' = IF e.error = "none"
                   THEN [settings EXCEPT ![g] = DeleteRow(settings[g], k)]
                   ELSE settings
    /\ reply' = [op |-> "deleteGuildSetting", guild |-> g, key |-> k,
                 result |-> IF e.error # "none" THEN "throws"
                            ELSE IF settings[g][k] # NoRow THEN "success"
                            ELSE "no success"]
    /\ io' = [op |-> "deleteGuildSetting", guild |-> g, ddl |-> e.ddl,
              touched |-> IF e.error = "none" THEN {<<"settings", g>>} ELSE {},
              error |-> e.error, threw |-> e.error # "none"]
    /\ UNCHANGED <<cfg, usersGlobal, guildUsers, timers, calls, rowInserts,
                   openRequest, lastSacrifice, bannerUrl>>
    /\ UNCHANGED <<rowids, legacy, blacklist, conn, cooldown>>

\* a storage error is drawn only where a statement it can interrupt is issued
FaultApplies(g, fault) ==
    \/ fault = "none"
    \/ g = "global" /\ fault = "settings"
    \/ IsNumericId(g) /\ g \notin guildTablesCache

NextStore ==
    \/ \E g \in TenantIds, f \in Faults :
          FaultApplies(g, f) /\ EnsureTenant(g, f)
    \/ \E g \in TenantIds, u \in StoreUsers, a \in StoreXp, f \in Faults :
          FaultApplies(g, f) /\ StoreAddXP(g, u, a, f)
    \/ \E g \in TenantIds, u \in StoreUsers, f \in Faults :
          FaultApplies(g, f) /\ StoreSacrificeUser(g, u, f)
    \/ \E g \in TenantIds, u \in StoreUsers, f \in Faults :
          FaultApplies(g, f) /\ StoreResetSacrificePending(g, u, f)
    \/ \E g \in TenantIds, u \in StoreUsers, f \in Faults :
          FaultApplies(g, f) /\ GetUserBanner(g, u, f)
    \/ \E g \in TenantIds, u \in StoreUsers, url \in Urls, f \in Faults :
          FaultApplies(g, f) /\ SetUserBanner(g, u, url, f)
    \/ \E g \in TenantIds, k \in Keys, f \in Faults :
          FaultApplies(g, f) /\ GetGuildSetting(g, k, StoreDefault, f)
    \/ \E g \in TenantIds, f \in Faults :
          FaultApplies(g, f) /\ GetAllGuildSettings(g, f)
    \/ \E g \in TenantIds, k \in Keys, v \in StoreValues, f \in Faults :
          FaultApplies(g, f) /\ UpdateGuildSetting(g, k, v, f)
    \/ \E g \in TenantIds, k \in Keys, f \in Faults :
          FaultApplies(g, f) /\ DeleteGuildSetting(g, k, f)
    \/ Restart

SpecStore == Init /\ [][NextStore]_vars

\* ------------------------------------------------ leaderboard and rank
\* variant: the subquery counts rows with xp >= that of the user
RankInGreaterEqual(rows, u) ==
    1 + Cardinality({w \in DOMAIN rows : rows[w] # NoRow /\ rows[w].xp >= rows[u].xp})

\* getUserRank: 1 + the number of rows of the guild with a higher xp
RankIn(rows, u) ==
    1 + Cardinality({w \in DOMAIN rows : rows[w] # NoRow /\ rows[w].xp > rows[u].xp})

\* getLeaderboard: the rows of the guild ORDER BY xp DESC as (user_id, xp,
\* level); the order of rows with equal xp is not defined by the statement,
\* so this is the set of the orders it may return
LeaderboardsIn(rows) ==
    LET present == {w \in DOMAIN rows : rows[w] # NoRow}
        n == Cardinality(present)
        orders == {s \in [1..n -> present] :
                     /\ \A i, j \in 1..n : i # j => s[i] # s[j]
                     /\ \A i, j \in 1..n : i < j => rows[s[i]].xp >= rows[s[j]].xp}
    IN  {[i \in 1..n |-> <<s[i], rows[s[i]].xp, rows[s[i]].level>>] : s \in orders}

\* Math.ceil(count / pageSize) for count >= 0 and pageSize >= 1
CeilDiv(n, d) == (n + d - 1) \div d

\* variant: pages are counted from 0
PageOffsetZeroBased(page, pageSize) == page * pageSize

\* const offset = (page - 1) * pageSize
PageOffset(page, pageSize) == (page - 1) * pageSize

\* the place of the row of u in the rowid order ids
RowidOf(ids, u) == CHOOSE i \in 1..Len(ids) : ids[i] = u

\* ORDER BY xp DESC, read through the index on (xp DESC): rows of equal xp
\* come in the order of their rowid
OrderByXpDesc(rows, ids) ==
    LET n == Len(ids)
    IN  CHOOSE s \in [1..n -> {ids[i] : i \in 1..n}] :
           \A i, j \in 1..n : i < j =>
              \/ rows[s[i]].xp > rows[s[j]].xp
              \/ /\ rows[s[i]].xp = rows[s[j]].xp
                 /\ RowidOf(ids, s[i]) < RowidOf(ids, s[j])

\* LIMIT ? OFFSET ? on the ordered rows: a negative OFFSET counts as 0 and a
\* negative LIMIT as no limit
LimitOffset(s, limit, offset) ==
    LET off == IF offset < 0 THEN 0 ELSE offset
        last == IF limit < 0 \/ off + limit > Len(s) THEN Len(s) ELSE off + limit
    IN  SubSeq(s, off + 1, last)

\* users.map(user => [user.user_id, {xp, level}])
FormattedUsers(rows, s) ==
    [i \in 1..Len(s) |-> <<s[i], rows[s[i]].xp, rows[s[i]].level>>]

\* what getLeaderboard returns for the rows of a table held in rowid order ids
LeaderboardOf(rows, ids, page, pageSize) ==
    [users |-> FormattedUsers(rows, LimitOffset(OrderByXpDesc(rows, ids), pageSize,
                                                PageOffset(page, pageSize))),
     currentPage |-> page,
     totalPages |-> CeilDiv(Len(ids), pageSize),
     totalUsers |-> Len(ids)]

\* getLeaderboard(page, pageSize, guildId): ensureGuildTables, the page and
\* the count; the catch block rethrows
GetLeaderboard(g, page, pageSize, fault) ==
    LET e == EnsureGuildTablesOn(tables, guildTablesCache, g, fault)
        err == LedgerError(e, g)
    IN
    /\ rowids.tracked
    /\ tables' = e.tables
    /\ guildTablesCache' = e.cache
    /\ reply' = [op |-> "getLeaderboard", guild |-> g, page |-> page,
                 pageSize |-> pageSize,
                 result |-> IF err = "none"
                            THEN LeaderboardOf(guildUsers[g], rowids.order[g],
                                               page, pageSize)
                            ELSE [thrown |-> err]]
    /\ io' = [op |-> "getLeaderboard", guild |-> g, ddl |-> e.ddl,
              touched |-> IF err = "none" THEN {<<"users", g>>} ELSE {},
              error |-> err, threw |-> err # "none"]
    /\ UNCHANGED <<cfg, usersGlobal, guildUsers, timers, calls, rowInserts,
                   openRequest, lastSacrifice, settings, bannerUrl, rowids, legacy,
                   blacklist, conn, cooldown>>

\* getUserRank(userId, guildId): ensureGuildTables, ensureGuildUser, the count
\* of rows with a higher xp plus 1; the catch block rethrows
GetUserRank(g, u, fault) ==
    LET e == EnsureGuildTablesOn(tables, guildTablesCache, g, fault)
        err == LedgerError(e, g)
    IN
    /\ tables' = e.tables
    /\ guildTablesCache' = e.cache
    /\ guildUsers' = IF err = "none" THEN SetRow(g, u, EnsureGuildUserRow(Row(g, u)))
                     ELSE guildUsers
    /\ rowInserts' = IF err = "none" THEN Inserted(g, u) ELSE rowInserts
    /\ reply' = [op |-> "getUserRank", guild |-> g, user |-> u,
                 result |-> IF err = "none"
                            THEN RankIn(SetRow(g, u, EnsureGuildUserRow(Row(g, u)))[g], u)
                            ELSE 0]
    /\ io' = [op |-> "getUserRank", guild |-> g, ddl |-> e.ddl,
              touched |-> IF err = "none" THEN {<<"users", g>>} ELSE {},
              error |-> err, threw |-> err # "none"]
    /\ UNCHANGED <<cfg, usersGlobal, timers, calls, openRequest, lastSacrifice,
                   settings, bannerUrl>>
    /\ rowids' = RowidsWith(guildUsers')
    /\ UNCHANGED <<legacy, blacklist, conn, cooldown>>

\* three users of one guild, page sizes 1..3 and the pages around 1..3
BoardUsers == {"u1", "u2", "u3"}
BoardXp == {15000}
PageSizes == 1..3
Pages == (0 - 1)..4

NextBoard ==
    \/ \E g \in Guilds, u \in BoardUsers : EnsureGuildUser(g, u)
    \/ \E g \in Guilds, u \in BoardUsers, a \in BoardXp : StoreAddXP(g, u, a, "none")
    \/ \E g \in Guilds, p \in Pages, n \in PageSizes : GetLeaderboard(g, p, n, "none")
    \/ \E g \in Guilds, u \in BoardUsers : GetUserRank(g, u, "none")

SpecBoard ==
    InitFor(ShippedConfig, Guilds, BoardUsers, Keys, TRUE) /\ [][NextBoard]_vars

\* ------------------------------------------------ the engine alone
\* threshold tables with one to three entries whose xp grows with the level,
\* with the lowest level at or above 1 and the highest below, at or above
\* maxLevel; and the formula without a table
EngineLevels == {1, 2, 5, 8, 12}
EngineXps == {5, 6, 100, 1000}
EngineMaxLevels == {6, 10}

EngineTables ==
    UNION { {T \in [L -> EngineXps] : \A a, b \in L : a < b => T[a] < T[b]} :
               L \in {K \in SUBSET EngineLevels : K # {} /\ Cardinality(K) <= 3} }

EngineConfigs ==
    { [maxLevel |-> m, baseXP |-> 100, useCustomThresholds |-> TRUE,
       interpolateXP |-> i, customLevelThresholds |-> T] :
         m \in EngineMaxLevels, i \in BOOLEAN, T \in EngineTables }
    \cup
    { [maxLevel |-> m, baseXP |-> 100, useCustomThresholds |-> FALSE,
       interpolateXP |-> FALSE, customLevelThresholds |-> <<>>] :
         m \in EngineMaxLevels }

EngineLevelInputs == 1..13
EngineXpInputs == {0, 4, 5, 6, 50, 100, 282, 283, 799, 800, 850, 1000, 1118, 1119, 5000}

\* xpForLevel(level) called on its own
XpForLevelCall(level) ==
    /\ reply' = [op |-> "xpForLevel", level |-> level,
                 result |-> XpForLevel(cfg, level),
                 integer |-> XpForLevelIsInteger(cfg, level)]
    /\ UNCHANGED <<cfg, tables, guildTablesCache, usersGlobal, guildUsers, timers,
                   calls, rowInserts, openRequest, lastSacrifice, settings,
                   bannerUrl, io, rowids, legacy,
                   blacklist, conn, cooldown>>

\* calculateLevel(xp) called on its own
CalculateLevelCall(xp) ==
    /\ reply' = [op |-> "calculateLevel", xp |-> xp,
                 result |-> CalculateLevel(cfg, xp)]
    /\ UNCHANGED <<cfg, tables, guildTablesCache, usersGlobal, guildUsers, timers,
                   calls, rowInserts, openRequest, lastSacrifice, settings,
                   bannerUrl, io, rowids, legacy,
                   blacklist, conn, cooldown>>

NextEngine ==
    \/ \E level \in EngineLevelInputs : XpForLevelCall(level)
    \/ \E xp \in EngineXpInputs : CalculateLevelCall(xp)

SpecEngine ==
    (\E c \in EngineConfigs : InitFor(c, Guilds, Users, Keys, FALSE))
       /\ [][NextEngine]_vars

\* ------------------------------------------- the settings store alone
SettingKeys == {"k1", "k2"}
SettingTenants == Guilds \cup {"global"}

\* booleans, objects and arrays: true, false, {"a":1}, [1,"x",null],
\* {"a":[true],"b":{}} and []
RoundTripValues ==
    { JBool(TRUE), JBool(FALSE),
      JObj(<<Member("a", JNum(1))>>),
      JArr(<<JNum(1), JStr(<<Word("x")>>), JNull>>),
      JObj(<<Member("a", JArr(<<JBool(TRUE)>>)), Member("b", JObj(<<>>))>>),
      JArr(<<>>) }

\* the string 'true', which is stored as the same text as the boolean
SettingValues == RoundTripValues \cup {JStr(<<Word("true")>>)}

NextSettings ==
    \/ \E g \in SettingTenants, k \in SettingKeys, v \in SettingValues :
          UpdateGuildSetting(g, k, v, "none")
    \/ \E g \in SettingTenants, k \in SettingKeys :
          GetGuildSetting(g, k, StoreDefault, "none")
    \/ \E g \in SettingTenants, k \in SettingKeys : DeleteGuildSetting(g, k, "none")
    \/ \E g \in SettingTenants : GetAllGuildSettings(g, "none")

SpecSettings == InitOver(ShippedConfig, Guilds, SettingKeys) /\ [][NextSettings]_vars

\* the settings store with values stored as NULL: null, a boolean, an array
\* and a text that starts like JSON but is none
NullableValues ==
    { JNull, JBool(TRUE), JArr(<<JNum(1)>>), JStr(<<Punct("{"), Word("x")>>) }

NextNullable ==
    \/ \E g \in SettingTenants, k \in SettingKeys, v \in NullableValues :
          UpdateGuildSetting(g, k, v, "none")
    \/ \E g \in SettingTenants, k \in SettingKeys :
          GetGuildSetting(g, k, StoreDefault, "none")
    \/ \E g \in SettingTenants, k \in SettingKeys : DeleteGuildSetting(g, k, "none")
    \/ \E g \in SettingTenants : GetAllGuildSettings(g, "none")

SpecNullable == InitOver(ShippedConfig, Guilds, SettingKeys) /\ [][NextNullable]_vars

\* ----------------------------------------------------- several guilds
IsoGuilds == {"111", "222"}
IsoTenants == IsoGuilds \cup {"global"}
IsoXp == {30010}

NextTenants ==
    \/ \E g \in IsoGuilds, u \in Users, a \in IsoXp : StoreAddXP(g, u, a, "none")
    \/ \E g \in IsoGuilds, u \in Users : StoreSacrificeUser(g, u, "none")
    \/ \E g \in IsoTenants, k \in Keys, v \in StoreValues :
          UpdateGuildSetting(g, k, v, "none")
    \/ \E g \in IsoTenants, k \in Keys : DeleteGuildSetting(g, k, "none")

SpecTenants == InitOver(ShippedConfig, IsoGuilds, Keys) /\ [][NextTenants]_vars

TypeOK ==
    /\ cfg \in Configs
    /\ tables \subseteq CoreTables \cup UNION {GuildObjects(g) : g \in DOMAIN guildUsers}
    /\ guildTablesCache \subseteq DOMAIN guildUsers
    /\ \A g \in guildTablesCache : GuildObjects(g) \subseteq tables
    /\ \A g \in DOMAIN guildUsers :
          /\ usersGlobal \subseteq DOMAIN guildUsers[g]
          /\ rowids.tracked =>
                /\ {rowids.order[g][i] : i \in 1..Len(rowids.order[g])} =
                      {u \in DOMAIN guildUsers[g] : Row(g, u) # NoRow}
                /\ Len(rowids.order[g]) =
                      Cardinality({u \in DOMAIN guildUsers[g] : Row(g, u) # NoRow})
    /\ \A g \in DOMAIN guildUsers : \A u \in DOMAIN guildUsers[g] :
          /\ Row(g, u) # NoRow =>
                /\ Row(g, u).xp \in Int
                /\ Row(g, u).level \in Int
                /\ Row(g, u).sacrifices \in 0..(MaxSacrifices + 1)
                /\ Row(g, u).sacrifice_pending \in {0, 1}
          /\ timers[g][u] \in 0..MaxTimers


\* ------------------------------------------- the xp cooldown per user
MaxClock == 5           \* values of Date.now() in SpecCooldown
\* config.xp.cooldown, in clock steps
CooldownTicks == 2
CooldownUsers == {"u1"}
CooldownXp == {15000}

\* variant: the cooldown ends one clock step early
IsOnCooldownEndsEarly(cd, u) ==
    cd.cooldowns[u] # NoCooldown /\ cd.now + 1 < cd.cooldowns[u]

\* XPCooldownManager.isOnCooldown(userId)
IsOnCooldown(cd, u) ==
    cd.cooldowns[u] # NoCooldown /\ cd.now < cd.cooldowns[u]

\* XPCooldownManager.setCooldown(userId)
SetCooldown(cd, u) == [cd EXCEPT !.cooldowns[u] = cd.now + CooldownTicks]

\* Date.now() moves on
Tick ==
    /\ cooldown.now < MaxClock
    /\ cooldown' = [cooldown EXCEPT !.now = @ + 1]
    /\ reply' = [op |-> "tick"]
    /\ UNCHANGED <<cfg, tables, guildTablesCache, usersGlobal, guildUsers, timers,
                   calls, rowInserts, openRequest, lastSacrifice, settings,
                   bannerUrl, io, rowids, legacy, blacklist, conn>>

\* the messageCreate handler for a user's message in a guild whose xp
\* channels are not restricted: the settings read, the cooldown check,
\* setCooldown, addXP
MessageCreate(g, u, xpToAdd) ==
    IF IsOnCooldown(cooldown, u)
    THEN /\ EnsureGuildTables(g)
         /\ reply' = [op |-> "messageCreate", guild |-> g, user |-> u,
                      result |-> "onCooldown"]
         /\ UNCHANGED <<cfg, usersGlobal, guildUsers, timers, calls, rowInserts,
                        openRequest, lastSacrifice, settings, bannerUrl, io,
                        rowids, legacy, blacklist, conn, cooldown>>
    ELSE /\ EnsureGuildUserRow(Row(g, u)).xp + xpToAdd <= XpCap
         /\ cooldown' = [SetCooldown(cooldown, u) EXCEPT !.awarded[u] = cooldown.now,
                                                         !.thisRun[u] = cooldown.now]
         /\ AddXPStore(g, u, xpToAdd)
         /\ UNCHANGED calls

NextCooldown ==
    \/ Tick
    \/ \E g \in IsoGuilds, u \in CooldownUsers, a \in CooldownXp : MessageCreate(g, u, a)
    \/ Restart

SpecCooldown ==
    InitFor(ShippedConfig, IsoGuilds, Users, Keys, FALSE) /\ [][NextCooldown]_vars

\* ----------------------------- reset timers of successive requests
MaxOverlap == 2         \* reset timers armed at once in SpecTimers
TimerUsers == {"u1"}

NextTimers ==
    \/ \E g \in Guilds, u \in TimerUsers, a \in XpAmounts : AddXP(g, u, a)
    \/ \E g \in Guilds, u \in TimerUsers : SacrificeUserWithin(g, u, MaxOverlap)
    \/ \E g \in Guilds, u \in TimerUsers : ResetSacrificePending(g, u)

SpecTimers == Init /\ [][NextTimers]_vars

\* ------------------------------------------ xp gained message by message
GainAmounts == {5166, 4834}

NextGain == \E g \in Guilds, u \in Users, a \in GainAmounts : AddXP(g, u, a)

SpecGain == Init /\ [][NextGain]_vars

\* ------------------------------------- the checkpoint timer and close
MaxCheckpoints == 12    \* background checkpoints in SpecLifecycle
MaxCloses == 3          \* calls of close() in SpecLifecycle

CloseFaults == {"none", "checkpoint", "close"}

\* variant: the interval held in saveInterval is left running
ClearIntervalKeeps(c) == [c EXCEPT !.saveInterval = FALSE]

\* if (this.saveInterval) clearInterval(this.saveInterval)
ClearInterval(c) ==
    IF c.saveInterval
    THEN [c EXCEPT !.intervals = @ - 1, !.saveInterval = FALSE]
    ELSE c

\* setupAutoSave(), as initialize calls it on an open connection
SetupAutoSave ==
    /\ conn.db = "open"
    /\ ~conn.closing
    /\ conn' = [ClearInterval(conn) EXCEPT !.intervals = @ + 1, !.saveInterval = TRUE,
                                          !.log = <<"setInterval">>]
    /\ reply' = [op |-> "setupAutoSave"]
    /\ UNCHANGED <<cfg, tables, guildTablesCache, usersGlobal, guildUsers, timers,
                   calls, rowInserts, openRequest, lastSacrifice, settings,
                   bannerUrl, io, rowids, legacy, blacklist, cooldown>>

\* the setInterval callback: wal_checkpoint(PASSIVE) inside try/catch
BackgroundCheckpoint ==
    /\ conn.intervals > 0
    /\ conn.passive < MaxCheckpoints
    /\ conn' = IF conn.db = "open"
               THEN [conn EXCEPT !.passive = @ + 1, !.log = <<"wal_checkpoint(PASSIVE)">>]
               ELSE [conn EXCEPT !.log = <<"TypeError">>]
    /\ reply' = [op |-> "checkpoint"]
    /\ UNCHANGED <<cfg, tables, guildTablesCache, usersGlobal, guildUsers, timers,
                   calls, rowInserts, openRequest, lastSacrifice, settings,
                   bannerUrl, io, rowids, legacy, blacklist, cooldown>>

\* close(): clear the interval; when this.db is set, wal_checkpoint(FULL),
\* db.close(), this.db = null, all in one try whose catch logs
Close(fault) ==
    LET c1 == ClearInterval(conn)
        cleared == IF conn.saveInterval THEN <<"clearInterval">> ELSE <<>>
        c2 == IF c1.db # "open" THEN [c1 EXCEPT !.log = cleared]
              ELSE IF fault = "checkpoint"
              THEN [c1 EXCEPT !.failed = TRUE, !.log = cleared \o <<"throws">>]
              ELSE IF fault = "close"
              THEN [c1 EXCEPT !.failed = TRUE, !.full = @ + 1,
                              !.log = cleared \o <<"wal_checkpoint(FULL)", "throws">>]
              ELSE [c1 EXCEPT !.db = "null", !.full = @ + 1,
                              !.log = cleared \o <<"wal_checkpoint(FULL)", "close">>]
    IN
    /\ conn.closes < MaxCloses
    /\ fault # "none" => conn.db = "open"
    /\ conn' = [c2 EXCEPT !.closing = TRUE, !.closes = @ + 1]
    /\ reply' = [op |-> "close", fault |-> fault]
    /\ UNCHANGED <<cfg, tables, guildTablesCache, usersGlobal, guildUsers, timers,
                   calls, rowInserts, openRequest, lastSacrifice, settings,
                   bannerUrl, io, rowids, legacy, blacklist, cooldown>>

LifecycleXp == {15000}

NextLifecycle ==
    \/ SetupAutoSave
    \/ BackgroundCheckpoint
    \/ \E fault \in CloseFaults : Close(fault)
    \/ \E g \in Guilds, u \in Users, a \in LifecycleXp :
          conn.db = "open" /\ StoreAddXP(g, u, a, "none")

SpecLifecycle == Init /\ [][NextLifecycle]_vars

\* ------------------------------------------------------ the blacklists
ModGuilds == IsoGuilds \cup {"global"} \cup MalformedIds
ModUsers == {"u1"}
ModFaults == {"none", "users"}

\* variant: only the guild flag is consulted
GuildBlacklistedIgnoresGlobal(globalFlag, guildFlag) == guildFlag

\* isUserGuildBlacklisted after ensureGuildTables: the global flag first,
\* then the flag of the guild row
GuildBlacklisted(globalFlag, guildFlag) ==
    IF globalFlag THEN TRUE ELSE guildFlag

\* isUserGloballyBlacklisted: result ? result.is_blacklisted === 1 : false
GloballyBlacklisted(u) == u \in usersGlobal /\ blacklist.global[u]

\* SELECT is_blacklisted FROM users_<guildId> WHERE user_id = ?, which for
\* the id "global" reads users_global
GuildFlag(g, u) ==
    IF g = "global" THEN GloballyBlacklisted(u)
    ELSE Row(g, u) # NoRow /\ blacklist.guild[g][u]

\* setGlobalUserBlacklist(userId, blacklisted): ensureGlobalUser, UPDATE
SetGlobalUserBlacklist(u, b) ==
    /\ usersGlobal' = usersGlobal \cup {u}
    /\ blacklist' = [blacklist EXCEPT !.global[u] = b]
    /\ reply' = [op |-> "setGlobalUserBlacklist", user |-> u, result |-> TRUE]
    /\ io' = [op |-> "setGlobalUserBlacklist", guild |-> "global", ddl |-> 0,
              touched |-> {<<"users", "global">>}, error |-> "none", threw |-> FALSE]
    /\ UNCHANGED <<cfg, tables, guildTablesCache, guildUsers, timers, calls,
                   rowInserts, openRequest, lastSacrifice, settings, bannerUrl,
                   rowids, legacy, conn, cooldown>>

\* setGuildUserBlacklist(userId, guildId, blacklisted): ensureGuildTables,
\* ensureGuildUser, UPDATE; the catch block returns false
SetGuildUserBlacklist(g, u, b, fault) ==
    LET e == EnsureGuildTablesOn(tables, guildTablesCache, g, fault)
        err == LedgerError(e, g)
    IN
    /\ tables' = e.tables
    /\ guildTablesCache' = e.cache
    /\ guildUsers' = IF err = "none" THEN SetRow(g, u, EnsureGuildUserRow(Row(g, u)))
                     ELSE guildUsers
    /\ rowInserts' = IF err = "none" THEN Inserted(g, u) ELSE rowInserts
    /\ blacklist' = IF err = "none" THEN [blacklist EXCEPT !.guild[g][u] = b]
                    ELSE blacklist
    /\ reply' = [op |-> "setGuildUserBlacklist", guild |-> g, user |-> u,
                 result |-> err = "none"]
    /\ io' = [op |-> "setGuildUserBlacklist", guild |-> g, ddl |-> e.ddl,
              touched |-> IF err = "none" THEN {<<"users", g>>} ELSE {},
              error |-> err, threw |-> FALSE]
    /\ UNCHANGED <<cfg, usersGlobal, timers, calls, openRequest, lastSacrifice,
                   settings, bannerUrl, legacy, conn, cooldown>>
    /\ rowids' = RowidsWith(guildUsers')

\* isUserGuildBlacklisted(userId, guildId): ensureGuildTables, the global
\* check, the guild check; the catch block returns false
IsUserGuildBlacklisted(g, u, fault) ==
    LET e == EnsureGuildTablesOn(tables, guildTablesCache, g, fault)
    IN
    /\ tables' = e.tables
    /\ guildTablesCache' = e.cache
    /\ reply' = [op |-> "isUserGuildBlacklisted", guild |-> g, user |-> u,
                 result |-> IF e.error # "none" THEN FALSE
                            ELSE GuildBlacklisted(GloballyBlacklisted(u),
                                                  GuildFlag(g, u))]
    /\ io' = [op |-> "isUserGuildBlacklisted", guild |-> g, ddl |-> e.ddl,
              touched |-> IF e.error # "none" THEN {}
                          ELSE IF GloballyBlacklisted(u) THEN {<<"users", "global">>}
                          ELSE {<<"users", "global">>, <<"users", g>>},
              error |-> e.error, threw |-> FALSE]
    /\ UNCHANGED <<cfg, usersGlobal, guildUsers, timers, calls, rowInserts,
                   openRequest, lastSacrifice, settings, bannerUrl, rowids,
                   legacy, blacklist, conn, cooldown>>

NextModeration ==
    \/ \E u \in ModUsers, b \in BOOLEAN : SetGlobalUserBlacklist(u, b)
    \/ \E g \in ModGuilds, u \in ModUsers, b \in BOOLEAN :
          SetGuildUserBlacklist(g, u, b, "none")
    \/ \E g \in ModGuilds, u \in ModUsers, f \in ModFaults :
          FaultApplies(g, f) /\ IsUserGuildBlacklisted(g, u, f)

SpecModeration ==
    InitFor(ShippedConfig, IsoGuilds, Users, Keys, FALSE) /\ [][NextModeration]_vars

\* ------------------------------- start-up of the single-table class
\* src/database.js keeps every guild in one guild_users table and is the
\* class that carries the legacy migration.  legacy is the database file it
\* opens: users and guild_users are the rows of those tables, usersSql says
\* whether the stored CREATE statement of users names guild_id, marker is
\* the statistics row migration_completed, content the banner_url and
\* avatar_url rows of guild_settings.  markerWrites, startups and steps are
\* history: committed inserts of the marker, start-ups so far, and the
\* statements of migrateLegacyData the last start-up ran.
MaxStartups == 3        \* start-ups of one database file in SpecMigration

MigrationUsers == {"u1", "u2", "u3"}
MigrationGuilds == {"111", "global"}
MigrationXp == {0, 15000}
MigrationSeen == {1000}

\* a row of the users table the earlier single-table classes created
\* (user_id is its primary key, guild_id one of its columns)
LegacyRow(u, g, x, t) ==
    [user_id |-> u, guild_id |-> g, xp |-> x, first_seen |-> t]

LegacyUserTables ==
    {rows \in SUBSET {LegacyRow(u, g, x, t) : u \in MigrationUsers, g \in MigrationGuilds,
                                             x \in MigrationXp, t \in MigrationSeen} :
        \A r1, r2 \in rows : r1.user_id = r2.user_id => r1 = r2}

\* the files start-up can meet: one left by an earlier class, or none yet
StoreFiles ==
    {[shape |-> "file", usersSql |-> "legacy", sacrificeColumns |-> sc, users |-> rows,
      guild_users |-> {}, marker |-> FALSE, content |-> {},
      markerWrites |-> 0, startups |-> 0, steps |-> <<>>] :
        sc \in BOOLEAN, rows \in LegacyUserTables}
    \cup
    {[shape |-> "file", usersSql |-> "new", sacrificeColumns |-> FALSE, users |-> {},
      guild_users |-> {}, marker |-> FALSE, content |-> {},
      markerWrites |-> 0, startups |-> 0, steps |-> <<>>]}

MinOf(S) == CHOOSE m \in S : \A n \in S : m <= n

\* CREATE TEMPORARY TABLE temp_users AS SELECT DISTINCT user_id,
\* MIN(first_seen) ... GROUP BY user_id
TempUsers(users) ==
    {[user_id |-> u,
      first_seen |-> MinOf({r.first_seen : r \in {q \in users : q.user_id = u}})] :
        u \in {r.user_id : r \in users}}

\* INSERT INTO users (user_id, first_seen) SELECT ... FROM temp_users: the
\* table is the one the file holds under the name users, the other columns
\* take their defaults, and a user_id already there fails the statement
InsertUsers(users, temp) ==
    IF \E t \in temp, r \in users : r.user_id = t.user_id
    THEN [ok |-> FALSE, users |-> users]
    ELSE [ok |-> TRUE,
          users |-> users \cup {LegacyRow(t.user_id, "global", 0, t.first_seen) : t \in temp}]

\* INSERT INTO guild_users (...) SELECT ..., COALESCE(sacrifices, 0),
\* COALESCE(sacrifice_pending, 0) FROM users
InsertGuildUsers(store, users) ==
    LET new == {[user_id |-> r.user_id, guild_id |-> r.guild_id, xp |-> r.xp,
                 banner_url |-> "null", avatar_url |-> "null"] : r \in users}
    IN  IF \/ ~store.sacrificeColumns
           \/ \E n \in new, o \in store.guild_users :
                 n.user_id = o.user_id /\ n.guild_id = o.guild_id
        THEN [ok |-> FALSE, guild_users |-> store.guild_users]
        ELSE [ok |-> TRUE, guild_users |-> store.guild_users \cup new]

\* migrateLegacyUserContent: each content row sets the column it names
MigrateLegacyUserContent(guild_users, content) ==
    {LET hit(k) == {c \in content : c.user_id = r.user_id /\ c.guild_id = r.guild_id
                                      /\ c.setting_key = k}
         col(k, old) == IF hit(k) = {} THEN old
                        ELSE (CHOOSE c \in hit(k) : TRUE).setting_value
     IN  [r EXCEPT !.banner_url = col("banner_url", @),
                   !.avatar_url = col("avatar_url", @)] : r \in guild_users}

HasAlreadyMigrated(store) == store.marker

\* statements of migrateLegacyData that a storage error can fail before the
\* insert into users is reached
MigrationFaults == {"none", "BEGIN", "temp_users"}

\* migrateLegacyData recording completion before its statements ran, outside
\* the transaction
MigrateLegacyDataMarkerFirst(store, fault) ==
    LET temp == TempUsers(store.users)
        s2 == InsertUsers(store.users, temp)
        s3 == InsertGuildUsers(store, s2.users)
        marked == [store EXCEPT !.marker = TRUE, !.markerWrites = @ + 1]
    IN  IF fault = "BEGIN"
        THEN [marked EXCEPT !.steps = <<"BEGIN", "ROLLBACK">>]
        ELSE IF fault = "temp_users"
        THEN [marked EXCEPT !.steps = <<"BEGIN", "temp_users", "ROLLBACK">>]
        ELSE IF ~s2.ok
        THEN [marked EXCEPT !.steps = <<"BEGIN", "temp_users", "users", "ROLLBACK">>]
        ELSE IF ~s3.ok
        THEN [marked EXCEPT !.steps = <<"BEGIN", "temp_users", "users", "guild_users",
                                       "ROLLBACK">>]
        ELSE [marked EXCEPT
                !.users = s2.users,
                !.guild_users = MigrateLegacyUserContent(s3.guild_users, store.content),
                !.steps = <<"BEGIN", "temp_users", "users", "guild_users", "content",
                            "marker", "COMMIT">>]

\* migrateLegacyData: one transaction; a failing statement rolls all of it
\* back and the error is logged, not rethrown.  When BEGIN itself fails the
\* ROLLBACK of the catch throws too, and checkAndMigrateLegacyData's catch
\* swallows that.
MigrateLegacyData(store, fault) ==
    LET temp == TempUsers(store.users)
        s2 == InsertUsers(store.users, temp)
        s3 == InsertGuildUsers(store, s2.users)
    IN  IF fault = "BEGIN"
        THEN [store EXCEPT !.steps = <<"BEGIN", "ROLLBACK">>]
        ELSE IF fault = "temp_users"
        THEN [store EXCEPT !.steps = <<"BEGIN", "temp_users", "ROLLBACK">>]
        ELSE IF ~s2.ok
        THEN [store EXCEPT !.steps = <<"BEGIN", "temp_users", "users", "ROLLBACK">>]
        ELSE IF ~s3.ok
        THEN [store EXCEPT !.steps = <<"BEGIN", "temp_users", "users", "guild_users",
                                      "ROLLBACK">>]
        ELSE [store EXCEPT
                !.users = s2.users,
                !.guild_users = MigrateLegacyUserContent(s3.guild_users, store.content),
                !.marker = TRUE,
                !.markerWrites = @ + 1,
                !.steps = <<"BEGIN", "temp_users", "users", "guild_users", "content",
                            "marker", "COMMIT">>]

\* checkAndMigrateLegacyData
CheckAndMigrateLegacyData(store, fault) ==
    IF store.usersSql = "legacy" /\ store.users # {} /\ ~HasAlreadyMigrated(store)
    THEN MigrateLegacyData(store, fault)
    ELSE [store EXCEPT !.steps = <<>>]

\* initialize: createTables (every CREATE is IF NOT EXISTS, so a users table
\* already in the file stays as it is), then checkAndMigrateLegacyData
Startup(fault) ==
    /\ legacy.shape = "file"
    /\ legacy.startups < MaxStartups
    /\ legacy' = [CheckAndMigrateLegacyData(legacy, fault) EXCEPT !.startups = @ + 1]
    /\ reply' = [op |-> "initialize", fault |-> fault]
    /\ UNCHANGED <<cfg, tables, guildTablesCache, usersGlobal, guildUsers, timers,
                   calls, rowInserts, openRequest, lastSacrifice,
                   settings, bannerUrl, io, rowids, blacklist, conn, cooldown>>

NextMigration == \E fault \in MigrationFaults : Startup(fault)

InitMigration ==
    /\ cfg = ShippedConfig
    /\ tables = CoreTables
    /\ guildTablesCache = {}
    /\ usersGlobal = {}
    /\ guildUsers = [g \in Guilds |-> [u \in Users |-> NoRow]]
    /\ timers = [g \in Guilds |-> [u \in Users |-> 0]]
    /\ reply = [op |-> "none"]
    /\ calls = [g \in Guilds |-> [u \in Users |-> [issued |-> 0, returned |-> 0]]]
    /\ rowInserts = [g \in Guilds |-> [u \in Users |-> 0]]
    /\ openRequest = [g \in Guilds |-> [u \in Users |-> FALSE]]
    /\ lastSacrifice = [g \in Guilds |-> [u \in Users |-> "none"]]
    /\ settings = [t \in Guilds \cup {"global"} |-> [k \in Keys |-> NoRow]]
    /\ bannerUrl = [g \in Guilds |-> [u \in Users |-> "null"]]
    /\ io = NoCall
    /\ rowids = [tracked |-> FALSE, order |-> [g \in Guilds |-> <<>>]]
    /\ legacy \in StoreFiles
    /\ blacklist = [global |-> [u \in Users |-> FALSE],
                    guild |-> [g \in Guilds |-> [u \in Users |-> FALSE]]]
    /\ conn = Connected
    /\ cooldown = [now |-> 0, cooldowns |-> [u \in Users |-> NoCooldown],
                   awarded |-> [u \in Users |-> NoCooldown],
                   thisRun |-> [u \in Users |-> NoCooldown]]

SpecMigration == InitMigration /\ [][NextMigration]_vars

\* ------------------------------------------------------------- claims
Exists(g, u) == Row(g, u) # NoRow

\* the step just taken handled a sacrifice request of u in g
SacrificeStep(g, u) ==
    /\ reply'.op = "sacrificeUser"
    /\ reply'.guild = g
    /\ reply'.user = u

\* C1: after any number N >= 1 of concurrently issued addXP(u, 1, g) calls on a
\* user without a row, handled in any order, the stored xp equals the number
\* of calls that have returned (N once all have) and the row was inserted once.
C1_NoLostUpdate ==
    \A g \in Guilds, u \in Users :
        calls[g][u].returned >= 1 =>
            /\ Exists(g, u)
            /\ Row(g, u).xp = calls[g][u].returned
            /\ rowInserts[g][u] = 1

C1_Witness ==
    \E g \in Guilds, u \in Users :
        /\ calls[g][u].issued >= 3
        /\ calls[g][u].returned = calls[g][u].issued
        /\ Exists(g, u)
        /\ Row(g, u).xp = calls[g][u].issued

\* C2: between operations the stored level of every row equals calculateLevel
\* of its stored xp.
C2_LevelIsCache ==
    \A g \in Guilds, u \in Users :
        Exists(g, u) => Row(g, u).level = CalculateLevel(cfg, Row(g, u).xp)

C2_Witness ==
    \E g \in Guilds, u \in Users :
        /\ Exists(g, u)
        /\ Row(g, u).sacrifices >= 1
        /\ Row(g, u).level > 1

\* C3: every row has xp >= 0 and 0 <= level <= maxLevel, under every
\* configuration the engine accepts.
C3_XpLevelInRange ==
    \A g \in Guilds, u \in Users :
        Exists(g, u) =>
            /\ Row(g, u).xp >= 0
            /\ Row(g, u).level >= 0
            /\ Row(g, u).level <= cfg.maxLevel

\* C4: the xp of a row decreases only in the step that completes a pending
\* sacrifice, and then to xpForLevel(1).
C4_XpNonDecreasing ==
    [][\A g \in Guilds, u \in Users :
          (Exists(g, u) /\ guildUsers'[g][u] # NoRow
              /\ guildUsers'[g][u].xp < Row(g, u).xp) =>
             /\ SacrificeStep(g, u)
             /\ reply'.result.outcome = "success"
             /\ Row(g, u).sacrifice_pending = 1
             /\ guildUsers'[g][u].xp = XpForLevel(cfg, 1)]_vars

C4_Witness ==
    \E g \in Guilds, u \in Users :
        /\ Exists(g, u)
        /\ Row(g, u).sacrifices >= 1
        /\ Row(g, u).xp = XpForLevel(cfg, 1)
        /\ reply.op = "sacrificeUser"

\* C5: a sacrifice request of a user below maxLevel answers not-eligible and
\* leaves the row as it was (a user without a row gets the default row).
C5_IneligibleNoMutation ==
    [][\A g \in Guilds, u \in Users :
          (SacrificeStep(g, u)
              /\ EnsureGuildUserRow(Row(g, u)).level < cfg.maxLevel) =>
             /\ reply'.result.outcome = "notEligible"
             /\ guildUsers'[g][u] = EnsureGuildUserRow(Row(g, u))]_vars

C5_Witness ==
    /\ reply.op = "sacrificeUser"
    /\ reply.result.outcome = "notEligible"
    /\ Row(reply.guild, reply.user).xp > 0
    /\ Row(reply.guild, reply.user).level < cfg.maxLevel

\* C6: a sacrifice request of a user at maxLevel with xp >= xpForLevel(maxLevel)
\* and no pending flag answers needs-confirmation, sets the flag and leaves
\* xp, level and sacrifices unchanged.
C6_EligibleSetsPending ==
    [][\A g \in Guilds, u \in Users :
          (SacrificeStep(g, u) /\ Exists(g, u)
              /\ Row(g, u).level = cfg.maxLevel
              /\ XpReaches(cfg, Row(g, u).xp, cfg.maxLevel)
              /\ Row(g, u).sacrifice_pending = 0) =>
             /\ reply'.result.outcome = "needsConfirmation"
             /\ guildUsers'[g][u] = [Row(g, u) EXCEPT !.sacrifice_pending = 1]]_vars

C6_Witness ==
    /\ reply.op = "sacrificeUser"
    /\ reply.result.outcome = "needsConfirmation"
    /\ Row(reply.guild, reply.user).sacrifice_pending = 1
    /\ Row(reply.guild, reply.user).xp >= XpForLevel(cfg, cfg.maxLevel)

\* C7: a sacrifice request of a user in PendingConfirmation sets level 1 and
\* xp xpForLevel(1), adds exactly 1 to sacrifices, clears the flag and answers
\* success with the newly stored sacrifice count.
C7_ConfirmResets ==
    [][\A g \in Guilds, u \in Users :
          (SacrificeStep(g, u) /\ Exists(g, u)
              /\ Row(g, u).level >= cfg.maxLevel
              /\ Row(g, u).sacrifice_pending = 1) =>
             /\ guildUsers'[g][u] =
                   [ xp |-> XpForLevel(cfg, 1), level |-> 1,
                     sacrifices |-> Row(g, u).sacrifices + 1,
                     sacrifice_pending |-> 0 ]
             /\ reply'.result.outcome = "success"
             /\ reply'.result.sacrificeCount = guildUsers'[g][u].sacrifices]_vars

C7_Witness ==
    /\ reply.op = "sacrificeUser"
    /\ reply.result.outcome = "success"
    /\ reply.result.sacrificeCount = 2
    /\ Row(reply.guild, reply.user).sacrifices = 2
    /\ Row(reply.guild, reply.user).level = 1

\* C8: the pending flag of a row is set only while a sacrifice request is
\* open (made, and neither confirmed nor timed out since) and never on a row
\* whose level is below maxLevel.
C8_PendingOnlyWhileOpen ==
    \A g \in Guilds, u \in Users :
        (Exists(g, u) /\ Row(g, u).sacrifice_pending = 1) =>
            /\ openRequest[g][u]
            /\ Row(g, u).level >= cfg.maxLevel

C8_Witness ==
    \E g \in Guilds, u \in Users :
        /\ Exists(g, u)
        /\ Row(g, u).sacrifice_pending = 1
        /\ openRequest[g][u]
        /\ timers[g][u] > 0

\* C9: the pending flag is raised only for a row with level = maxLevel and
\* xp >= xpForLevel(maxLevel), and the level test of sacrificeUser accepts a
\* row exactly when isEligibleForSacrificePrompt does.
C9_SameEligibility ==
    \A g \in Guilds, u \in Users :
        LET r == EnsureGuildUserRow(Row(g, u))
        IN  (~BelowMaxLevel(cfg, r)) <=> IsEligibleForSacrificePrompt(cfg, r)

C9_PendingOnlyFromEligible ==
    /\ []C9_SameEligibility
    /\ [][\A g \in Guilds, u \in Users :
            (guildUsers'[g][u] # NoRow
                /\ guildUsers'[g][u].sacrifice_pending = 1
                /\ EnsureGuildUserRow(Row(g, u)).sacrifice_pending = 0) =>
               /\ Exists(g, u)
               /\ Row(g, u).level = cfg.maxLevel
               /\ XpReaches(cfg, Row(g, u).xp, cfg.maxLevel)
               /\ SacrificeStep(g, u)]_vars

C9_Witness ==
    /\ reply.op = "isEligibleForSacrificePrompt"
    /\ reply.result = TRUE
    /\ Row(reply.guild, reply.user).sacrifice_pending = 1

\* C10: handlers run one at a time, so of two sacrifice requests made for a
\* user in PendingConfirmation, in any order with addXP calls, only the first
\* one handled resets the row: sacrifices changes by exactly 1 per reset, the
\* whole reset is applied in that one step, and a request handled right after
\* a successful one never succeeds.
C10_ResetOnce ==
    [][\A g \in Guilds, u \in Users :
          /\ (Exists(g, u) /\ guildUsers'[g][u] # NoRow
                 /\ ( \/ guildUsers'[g][u].sacrifices # Row(g, u).sacrifices
                      \/ guildUsers'[g][u].level < Row(g, u).level
                      \/ guildUsers'[g][u].xp < Row(g, u).xp )) =>
                /\ Row(g, u).sacrifice_pending = 1
                /\ guildUsers'[g][u] =
                      [ xp |-> XpForLevel(cfg, 1), level |-> 1,
                        sacrifices |-> Row(g, u).sacrifices + 1,
                        sacrifice_pending |-> 0 ]
          /\ (SacrificeStep(g, u) /\ lastSacrifice[g][u] = "success") =>
                /\ reply'.result.outcome # "success"
                /\ guildUsers'[g][u].sacrifices = Row(g, u).sacrifices]_vars

C10_Witness ==
    \E g \in Guilds, u \in Users :
        /\ Exists(g, u)
        /\ Row(g, u).sacrifices = 1
        /\ Row(g, u).xp > XpForLevel(cfg, 1)
        /\ lastSacrifice[g][u] = "notEligible"

\* C11: when the process stops after a sacrifice request set the pending flag
\* and before the confirmation or the timeout, the restart leaves every stored
\* row as it was (the flag still set, no other field changed), and the next
\* sacrifice request for that row, its timer gone with the old process,
\* completes the sacrifice.
C11_PendingSurvivesRestart ==
    [][\A g \in Guilds, u \in RestartUsers :
          /\ reply'.op = "restart" => guildUsers'[g][u] = Row(g, u)
          /\ (SacrificeStep(g, u) /\ Exists(g, u)
                 /\ Row(g, u).sacrifice_pending = 1 /\ timers[g][u] = 0) =>
                /\ reply'.result.outcome = "success"
                /\ guildUsers'[g][u] =
                      [ xp |-> XpForLevel(cfg, 1), level |-> 1,
                        sacrifices |-> Row(g, u).sacrifices + 1,
                        sacrifice_pending |-> 0 ]]_vars

\* a first sacrifice completed with no timer armed: the one armed by the
\* request died with the process
C11_Witness ==
    /\ reply.op = "sacrificeUser"
    /\ reply.result.outcome = "success"
    /\ reply.result.sacrificeCount = 1
    /\ timers[reply.guild][reply.user] = 0
    /\ Row(reply.guild, reply.user).sacrifice_pending = 0
    /\ Row(reply.guild, reply.user).level = 1

\* the step just taken was a call of a store method (not a restart)
StoreCall == reply'.op # "restart"

\* the step left every stored row and setting as it was
DataUnchanged ==
    /\ guildUsers' = guildUsers
    /\ usersGlobal' = usersGlobal
    /\ settings' = settings
    /\ bannerUrl' = bannerUrl

\* C12 as stated, for every valid guild id, 'global' included: a call after a
\* successful one for the same id (the id is cached, or the call before was a
\* successful one for it) issues no provisioning statement and changes
\* neither the tables nor the stored data.
C12_AnyValidId ==
    [][StoreCall =>
          \A g \in TenantIds :
             (/\ io'.op = "ensureGuildTables" /\ io'.guild = g
              /\ (g = "global" \/ IsNumericId(g))
              /\ \/ g \in guildTablesCache
                 \/ io.op = "ensureGuildTables" /\ io.guild = g
                       /\ io.error = "none") =>
                /\ io'.ddl = 0
                /\ tables' = tables
                /\ DataUnchanged]_vars

\* C12 (amended): ensureGuildTables is idempotent for every numeric guild id:
\* a successful call leaves the id cached with its tables and indexes created;
\* every call made while the id is cached, by any store method, issues no
\* provisioning statement, throws nothing and leaves tables and cache as they
\* were; no call of ensureGuildTables changes a stored row or setting.
C12_EnsureIdempotent ==
    [][StoreCall =>
          /\ (IsNumericId(io'.guild) /\ io'.guild \in guildTablesCache) =>
                /\ io'.ddl = 0
                /\ io'.error = "none"
                /\ tables' = tables
                /\ guildTablesCache' = guildTablesCache
          /\ io'.op = "ensureGuildTables" => DataUnchanged
          /\ (io'.op = "ensureGuildTables" /\ IsNumericId(io'.guild)
                 /\ io'.error = "none") =>
                /\ io'.guild \in guildTablesCache'
                /\ GuildObjects(io'.guild) \subseteq tables']_vars

\* a call answered from the cache for a guild that holds a row
C12_Witness ==
    /\ io.op = "ensureGuildTables"
    /\ io.guild \in guildTablesCache
    /\ io.ddl = 0
    /\ io.error = "none"
    /\ \E u \in StoreUsers : Row(io.guild, u) # NoRow /\ Row(io.guild, u).xp > 0

\* C13: after every step, also one in which provisioning failed part-way,
\* every guild id in guildTablesCache has its settings table, its users table
\* and both indexes; a call in which ensureGuildTables throws leaves its guild
\* id out of the cache, and a call for a numeric id that is not cached issues
\* the provisioning statements (again).
C13_CacheImpliesTables ==
    [][/\ \A g \in guildTablesCache' : GuildObjects(g) \subseteq tables'
       /\ StoreCall =>
             /\ (io'.error # "none" /\ io'.ddl > 0) =>
                    io'.guild \notin guildTablesCache'
             /\ (IsNumericId(io'.guild) /\ io'.guild \notin guildTablesCache) =>
                    io'.ddl > 0]_vars

\* provisioning failed between the two tables: the settings table exists, the
\* users table does not, the guild is not cached
C13_Witness ==
    /\ io.error = "SqliteError"
    /\ io.guild \in Guilds
    /\ <<"settings", io.guild>> \in tables
    /\ <<"users", io.guild>> \notin tables
    /\ io.guild \notin guildTablesCache

\* C15: ensureGuildTables called with an id that is not 'global' and is not a
\* run of digits throws the invalid-id error, issues no provisioning
\* statement, creates no table and leaves guildTablesCache unchanged.
C15_InvalidIdRejected ==
    [][(StoreCall /\ io'.op = "ensureGuildTables"
           /\ io'.guild \in MalformedIds) =>
          /\ io'.threw
          /\ io'.error = "InvalidGuildId"
          /\ io'.ddl = 0
          /\ tables' = tables
          /\ guildTablesCache' = guildTablesCache
          /\ DataUnchanged]_vars

\* a malformed id rejected while another guild is provisioned and cached
C15_Witness ==
    /\ io.op = "ensureGuildTables"
    /\ io.guild = "12a"
    /\ io.threw
    /\ guildTablesCache # {}
    /\ \A o \in tables : o[2] \notin MalformedIds

\* the methods of the user tables among the store calls
LedgerOps == {"addXP", "sacrificeUser", "resetSacrificePending",
              "getUserBanner", "setUserBanner"}

C14_TouchedTablesExist ==
    [][StoreCall =>
          /\ io'.touched \subseteq tables'
          /\ \A o \in io'.touched :
                \/ o \in CoreTables /\ o \in tables
                \/ o[2] = io'.guild /\ o[2] \in guildTablesCache'
          /\ io'.guild \in MalformedIds => io'.touched = {}]_vars

\* sacrificeUser on a guild it had to provision itself: it touched
\* users_global and the users table it had just created
C14_Witness ==
    /\ io.op = "sacrificeUser"
    /\ io.ddl = 2
    /\ io.error = "none"
    /\ io.touched = {<<"users", "global">>, <<"users", io.guild>>}

\* C17: getGuildSetting, getAllGuildSettings and getUserBanner called with a
\* malformed guild id end by throwing the invalid-id error to the caller,
\* never by returning the default, {} or null.
C17_ValidationPropagates ==
    [][(StoreCall
          /\ io'.op \in {"getGuildSetting", "getAllGuildSettings", "getUserBanner"}
          /\ io'.guild \in MalformedIds) =>
          /\ io'.threw
          /\ io'.error = "InvalidGuildId"]_vars

\* C18: whenever a statement fails, or the guild id is rejected, during
\* updateGuildSetting, deleteGuildSetting, addXP, sacrificeUser,
\* resetSacrificePending or setUserBanner, the method throws to its caller
\* and does not return a normal value.
C18_WritesNeverSwallow ==
    [][(StoreCall
          /\ io'.op \in {"updateGuildSetting", "deleteGuildSetting", "addXP",
                         "sacrificeUser", "resetSacrificePending",
                         "setUserBanner"}
          /\ io'.error # "none") =>
          io'.threw]_vars

\* C19: addXP, sacrificeUser, updateGuildSetting and deleteGuildSetting
\* called for one guild (or, the settings methods, for 'global') leave every
\* users_<t2> row, every settings_<t2> row, the tables, the leaderboard and
\* every rank of every other guild t2 as they were.
C19_TenantsIsolated ==
    [][\A t1 \in IsoTenants : \A t2 \in IsoTenants \ {t1} :
          io'.guild = t1 =>
             /\ settings'[t2] = settings[t2]
             /\ {o \in tables' : o[2] = t2} = {o \in tables : o[2] = t2}
             /\ t2 \in IsoGuilds =>
                   /\ guildUsers'[t2] = guildUsers[t2]
                   /\ bannerUrl'[t2] = bannerUrl[t2]
                   /\ LeaderboardsIn(guildUsers'[t2]) = LeaderboardsIn(guildUsers[t2])
                   /\ \A u \in Users :
                         guildUsers[t2][u] # NoRow =>
                            RankIn(guildUsers'[t2], u) = RankIn(guildUsers[t2], u)]_vars

\* a sacrifice completed in one guild while the same user and another one
\* hold rows of their own, and a setting, in the other guild
C19_Witness ==
    \E t1 \in IsoGuilds, u \in Users :
    \E t2 \in IsoGuilds \ {t1}, w \in Users \ {u} :
        /\ io.op = "sacrificeUser"
        /\ io.guild = t1
        /\ guildUsers[t1][u] # NoRow /\ guildUsers[t1][u].sacrifices = 1
        /\ guildUsers[t2][u] # NoRow /\ guildUsers[t2][u].xp = 30010
        /\ guildUsers[t2][w] # NoRow /\ RankIn(guildUsers[t2], w) = 2
        /\ settings[t2]["k1"] # NoRow
        /\ settings[t1]["k1"] = NoRow

\* C20: for every guild id and 'global', every key and every value that is a
\* boolean, an object or an array, updateGuildSetting(t, k, v) followed by
\* getGuildSetting(t, k, d) returns a value equal to v in structure and type:
\* the boolean true comes back as a boolean, not as the string 'true'.
C20_SettingsRoundTrip ==
    [][(/\ reply.op = "updateGuildSetting"
        /\ reply.result = "success"
        /\ reply.arg \in RoundTripValues
        /\ reply'.op = "getGuildSetting"
        /\ reply'.guild = reply.guild
        /\ reply'.key = reply.key) =>
          reply'.result = reply.arg]_vars

\* the nested object read back from settings_global
C20_Witness ==
    /\ reply.op = "getGuildSetting"
    /\ reply.guild = "global"
    /\ reply.key = "k2"
    /\ reply.result =
          JObj(<<Member("a", JArr(<<JBool(TRUE)>>)), Member("b", JObj(<<>>))>>)
    /\ settings["global"]["k1"] = Cell(<<Word("true")>>)
    /\ io.error = "none"

\* C21: for every tenant and every key with a stored row, text or NULL, what
\* getAllGuildSettings(t) returns has that key, mapped to the value that
\* getGuildSetting(t, key, d) returns for the same row; the value of one row
\* neither changes nor removes the entries of the other keys.
C21_AllMatchesSingle ==
    [][(/\ reply'.op = "getAllGuildSettings"
        /\ io'.error \in {"none", "TypeError"}) =>
          \A k \in DOMAIN settings[reply'.guild] :
             settings[reply'.guild][k] # NoRow =>
                /\ k \in DOMAIN reply'.result
                /\ reply'.result[k] =
                      ReadSetting(settings[reply'.guild][k], StoreDefault)]_vars

\* C22: deleteGuildSetting(t, k) that returns reports success exactly when a
\* row for (t, k) existed before the call; it leaves no row for (t, k), every
\* other key of t and every key of every other tenant keeps its cell, and a
\* getGuildSetting(t, k, d) that follows returns d.
C22_DeleteSetting ==
    [][/\ (reply'.op = "deleteGuildSetting" /\ reply'.result # "throws") =>
            /\ (reply'.result = "success") <=>
                   (settings[reply'.guild][reply'.key] # NoRow)
            /\ settings'[reply'.guild][reply'.key] = NoRow
            /\ \A t \in DOMAIN settings : \A j \in DOMAIN settings[t] :
                   (t # reply'.guild \/ j # reply'.key) =>
                      settings'[t][j] = settings[t][j]
       /\ (/\ reply.op = "deleteGuildSetting" /\ reply.result # "throws"
           /\ reply'.op = "getGuildSetting"
           /\ reply'.guild = reply.guild /\ reply'.key = reply.key) =>
              reply'.result = reply'.default]_vars

\* a row deleted from settings_111 while its other key and settings_global
\* hold rows
C22_Witness ==
    /\ reply.op = "deleteGuildSetting"
    /\ reply.guild = "111" /\ reply.key = "k1"
    /\ reply.result = "success"
    /\ settings["111"]["k1"] = NoRow
    /\ settings["111"]["k2"] = Cell(<<Punct("["), Punct("]")>>)
    /\ settings["global"]["k1"] = Cell(<<Word("true")>>)

\* the user ids 1..15 in descending-xp order
FifteenUsers == [i \in 1..15 |-> i]

\* C23: for a guild with U users, every pageSize >= 1 and every page p with
\* 1 <= p <= ceil(U / pageSize), getLeaderboard returns the rows at positions
\* (p-1)*pageSize+1 .. min(p*pageSize, U) of a descending-xp order of the
\* stored rows, with totalPages = ceil(U / pageSize), and the pages
\* 1..totalPages of that state hold every user exactly once; of 15 rows,
\* page 2 of size 10 is 5 rows and there are 2 pages.
C23_LeaderboardPages ==
    [][(/\ reply'.op = "getLeaderboard"
        /\ ~io'.threw
        /\ reply'.page >= 1
        /\ reply'.page <= CeilDiv(Len(rowids'.order[reply'.guild]), reply'.pageSize)) =>
          LET g == reply'.guild
              p == reply'.page
              n == reply'.pageSize
              rows == guildUsers'[g]
              present == {u \in DOMAIN rows : rows[u] # NoRow}
              U == Cardinality(present)
              first == (p - 1) * n + 1
              last == IF p * n < U THEN p * n ELSE U
              T == reply'.result.totalPages
              pg(q) == LeaderboardOf(rows, rowids'.order[g], q, n).users
          IN  /\ reply'.result.totalUsers = U
              /\ T = CeilDiv(U, n)
              /\ Len(reply'.result.users) = last - first + 1
              /\ \E s \in LeaderboardsIn(rows) :
                    reply'.result.users = [i \in 1..(last - first + 1) |-> s[first + i - 1]]
              /\ pg(p) = reply'.result.users
              /\ \A u \in present :
                    Cardinality({qi \in (1..T) \X (1..n) :
                                   /\ qi[2] <= Len(pg(qi[1]))
                                   /\ pg(qi[1])[qi[2]][1] = u}) = 1
              /\ Len(LimitOffset(FifteenUsers, 10, PageOffset(2, 10))) = 5
              /\ LimitOffset(FifteenUsers, 10, PageOffset(2, 10))[1] = 11
              /\ CeilDiv(15, 10) = 2]_vars

\* the second page of size 2 of three users, two of them tied on xp: one row
C23_Witness ==
    /\ reply.op = "getLeaderboard"
    /\ reply.page = 2 /\ reply.pageSize = 2
    /\ reply.result.totalUsers = 3
    /\ reply.result.totalPages = 2
    /\ Len(reply.result.users) = 1
    /\ guildUsers["111"]["u1"].xp = 15000
    /\ guildUsers["111"]["u2"].xp = 15000
    /\ reply.result.users[1][1] = "u3"

\* C24: getLeaderboard with a page outside 1..totalPages (0, negative, or
\* beyond the last) returns no rows and no error, with totalPages =
\* ceil(totalUsers / pageSize) and totalUsers the number of rows of the guild.
C24_OutOfRangeEmpty ==
    [][(/\ reply'.op = "getLeaderboard"
        /\ io'.error = "none"
        /\ ( \/ reply'.page < 1
             \/ reply'.page > CeilDiv(Len(rowids'.order[reply'.guild]),
                                      reply'.pageSize) )) =>
          /\ ~io'.threw
          /\ reply'.result.users = <<>>
          /\ reply'.result.totalUsers =
                Cardinality({u \in DOMAIN guildUsers'[reply'.guild] :
                               guildUsers'[reply'.guild][u] # NoRow})
          /\ reply'.result.totalPages =
                CeilDiv(reply'.result.totalUsers, reply'.pageSize)]_vars

\* C25: getUserRank(u, t) returns 1 plus the number of rows of t whose xp is
\* strictly greater than the xp of u; users tied on xp get the same rank, the
\* rank lies between 1 and the number of rows of t, and it is the place of
\* the first row with that xp in the descending-xp order.
C25_RankCountsHigherXp ==
    [][(reply'.op = "getUserRank" /\ ~io'.threw) =>
          LET rows == guildUsers'[reply'.guild]
              u == reply'.user
              present == {w \in DOMAIN rows : rows[w] # NoRow}
              higher == {w \in present : rows[w].xp > rows[u].xp}
          IN  /\ u \in present
              /\ reply'.result = 1 + Cardinality(higher)
              /\ reply'.result >= 1
              /\ reply'.result <= Cardinality(present)
              /\ \A w \in present :
                    rows[w].xp = rows[u].xp => RankIn(rows, w) = reply'.result
              /\ \A s \in LeaderboardsIn(rows) :
                    /\ s[reply'.result][2] = rows[u].xp
                    /\ \A i \in 1..(reply'.result - 1) : s[i][2] > rows[u].xp]_vars

\* rank 2 for a user tied with another one below the leader
C25_Witness ==
    /\ reply.op = "getUserRank"
    /\ reply.user = "u2"
    /\ reply.result = 2
    /\ guildUsers["111"]["u1"] # NoRow /\ guildUsers["111"]["u1"].xp = 30000
    /\ guildUsers["111"]["u2"] # NoRow /\ guildUsers["111"]["u2"].xp = 15000
    /\ guildUsers["111"]["u3"] # NoRow /\ guildUsers["111"]["u3"].xp = 15000

C27_XpForLevelMonotone ==
    (cfg.useCustomThresholds /\ cfg.interpolateXP) =>
       \A a, b \in 1..cfg.maxLevel :
          a <= b => XpForLevel(cfg, a) <= XpForLevel(cfg, b)

\* an interpolated and a scaled-down value under a table that starts above
\* level 1 and ends below maxLevel
C27_Witness ==
    /\ cfg.useCustomThresholds /\ cfg.interpolateXP
    /\ cfg.maxLevel = 10
    /\ cfg.customLevelThresholds = (2 :> 5) @@ (5 :> 100) @@ (8 :> 1000)
    /\ reply.op = "xpForLevel"
    /\ reply.level = 9
    /\ reply.result = 1000
    /\ XpForLevel(cfg, 1) = 2
    /\ XpForLevel(cfg, 3) = 36

\* C28 as stated: for every level L with an entry in the threshold table,
\* calculateLevel(xpForLevel(L)) = L, with interpolation enabled or disabled.
C28_RoundTripEveryEntry ==
    cfg.useCustomThresholds =>
       \A L \in DOMAIN cfg.customLevelThresholds :
          CalculateLevel(cfg, XpForLevel(cfg, L)) = L

\* C28, amended: for every level L <= maxLevel with an entry in a threshold
\* table whose xp values grow strictly with the level,
\* calculateLevel(xpForLevel(L)) = L, with interpolation enabled or disabled.
C28_RoundTripUpToMaxLevel ==
    LET T == cfg.customLevelThresholds IN
    (/\ cfg.useCustomThresholds
     /\ \A a, b \in DOMAIN T : a < b => T[a] < T[b]) =>
       \A L \in DOMAIN T :
          L <= cfg.maxLevel =>
             /\ XpForLevel(cfg, L) = T[L]
             /\ CalculateLevel(cfg, XpForLevel(cfg, L)) = L

\* calculateLevel on the threshold of level 8 without interpolation, under a
\* table that also has an entry above maxLevel
C28_Witness ==
    /\ cfg.useCustomThresholds /\ ~cfg.interpolateXP
    /\ cfg.maxLevel = 10
    /\ cfg.customLevelThresholds = (2 :> 6) @@ (8 :> 100) @@ (12 :> 1000)
    /\ reply.op = "calculateLevel"
    /\ reply.xp = XpForLevel(cfg, 8)
    /\ reply.xp = 100
    /\ reply.result = 8

\* the level of every positive integer xp under the floored formula
FlooredFormulaLevel(c, xp) ==
    CHOOSE L \in 0..c.maxLevel :
       /\ L = 0 \/ FormulaXpFloor(c, L) <= xp
       /\ \A K \in (L + 1)..c.maxLevel : FormulaXpFloor(c, K) > xp

\* C29: without a threshold table xpForLevel(level) is floor(baseXP *
\* level^1.5) and calculateLevel(xp) is the largest level L <= maxLevel with
\* xpForLevel(L) <= xp; with baseXP = 100 that is xpForLevel(1) = 100,
\* xpForLevel(4) = 800 and calculateLevel(850) = 4.
C29_FormulaFloor ==
    [][~cfg.useCustomThresholds =>
          /\ reply'.op = "xpForLevel" =>
                /\ reply'.integer
                /\ reply'.result =
                      FormulaXpFloor(cfg, IF reply'.level > cfg.maxLevel
                                          THEN cfg.maxLevel ELSE reply'.level)
          /\ reply'.op = "calculateLevel" =>
                reply'.result = FlooredFormulaLevel(cfg, reply'.xp)
          /\ XpForLevel(cfg, 1) = 100
          /\ XpForLevel(cfg, 4) = 800
          /\ CalculateLevel(cfg, 850) = 4]_vars


\* C30: over the start-ups of a file that holds rows in a legacy users
\* table, the completion marker is written exactly once: the start-up that
\* finds the rows unmigrated commits it, so the count of committed marker
\* writes is one after every start-up, and a start-up that finds the marker
\* runs no migration statement and leaves users, guild_users and the
\* content settings as they were.
HoldsLegacyData(store) ==
    store.shape = "file" /\ store.usersSql = "legacy" /\ store.users # {}

C30_MarkerWrittenOnce ==
    [][(reply'.op = "initialize" /\ HoldsLegacyData(legacy)) =>
          /\ legacy'.marker
          /\ legacy'.markerWrites = 1
          /\ legacy.marker =>
                /\ legacy'.steps = <<>>
                /\ legacy'.users = legacy.users
                /\ legacy'.guild_users = legacy.guild_users
                /\ legacy'.content = legacy.content]_vars

\* C31: a start-up whose migration fails at some statement leaves users,
\* guild_users and the content settings as they were before the migration
\* began and the marker unset, and still completes with the file open; and
\* every start-up that finds legacy rows and no marker, the one after a
\* failure included, runs the migration from its first statement.
MigrationFailed(store) ==
    store.steps # <<>> /\ store.steps[Len(store.steps)] = "ROLLBACK"

C31_FailureRollsBack ==
    [][reply'.op = "initialize" =>
          /\ MigrationFailed(legacy') =>
                /\ legacy'.users = legacy.users
                /\ legacy'.guild_users = legacy.guild_users
                /\ legacy'.content = legacy.content
                /\ ~legacy'.marker
                /\ legacy'.markerWrites = legacy.markerWrites
                /\ legacy'.shape = "file"
                /\ legacy'.startups = legacy.startups + 1
          /\ (HoldsLegacyData(legacy) /\ ~legacy.marker) =>
                (legacy'.steps # <<>> /\ legacy'.steps[1] = "BEGIN")]_vars

\* a second start-up has retried after a failure at the insert into users
C31_Witness ==
    /\ legacy.shape = "file"
    /\ legacy.startups >= 2
    /\ legacy.users # {}
    /\ legacy.steps = <<"BEGIN", "temp_users", "users", "ROLLBACK">>
    /\ ~legacy.marker

\* C32: a start-up that finds rows in a legacy users table and no marker,
\* and meets no storage error, completes the migration: it commits, every
\* legacy row is then a guild_users row with the same user, guild and xp,
\* and every legacy user id has exactly one row in the global users table,
\* whose first_seen is the least first_seen of that user's legacy rows.
C32_MigrationKeepsEveryRow ==
    [][(reply'.op = "initialize" /\ reply'.fault = "none"
          /\ HoldsLegacyData(legacy) /\ ~legacy.marker) =>
          /\ legacy'.steps # <<>>
          /\ legacy'.steps[Len(legacy'.steps)] = "COMMIT"
          /\ \A r \in legacy.users :
                \E n \in legacy'.guild_users :
                    n.user_id = r.user_id /\ n.guild_id = r.guild_id /\ n.xp = r.xp
          /\ \A u \in {r.user_id : r \in legacy.users} :
                \E t \in TempUsers(legacy.users) :
                    /\ t.user_id = u
                    /\ Cardinality({r \in legacy'.users \ legacy.users :
                                       r.user_id = u}) = 1
                    /\ \A r \in legacy'.users \ legacy.users :
                          r.user_id = u => r.first_seen = t.first_seen]_vars

\* C33: in every reachable state a user with a row in some users_<g> table
\* has a users_global row (one at most, user_id being its primary key):
\* whichever operation first records the user, addXP included, creates it.
C33_GuildRowHasGlobalRow ==
    \A g \in DOMAIN guildUsers : \A u \in DOMAIN guildUsers[g] :
        Row(g, u) # NoRow => u \in usersGlobal

\* C34: no store operation removes a user: a users_<g> row that exists
\* exists after every step and is never inserted a second time, a
\* users_global row stays, and a completed sacrifice updates the row in
\* place (sacrifices one higher) and leaves its banner as it was.
C34_UsersNeverRemoved ==
    [][/\ \A g \in DOMAIN guildUsers : \A u \in DOMAIN guildUsers[g] :
            Row(g, u) # NoRow =>
                /\ guildUsers'[g][u] # NoRow
                /\ rowInserts'[g][u] = rowInserts[g][u]
       /\ usersGlobal \subseteq usersGlobal'
       /\ (reply'.op = "sacrificeUser" /\ reply'.result.outcome = "success") =>
            /\ Row(reply'.guild, reply'.user) # NoRow
            /\ guildUsers'[reply'.guild][reply'.user].sacrifices =
                  Row(reply'.guild, reply'.user).sacrifices + 1
            /\ bannerUrl'[reply'.guild][reply'.user] =
                  bannerUrl[reply'.guild][reply'.user]]_vars

\* a sacrifice has completed on a row that carries a banner
C34_Witness ==
    /\ reply.op = "sacrificeUser"
    /\ reply.result.outcome = "success"
    /\ Row(reply.guild, reply.user) # NoRow
    /\ Row(reply.guild, reply.user).sacrifices = 1
    /\ bannerUrl[reply.guild][reply.user] = "b1"
    /\ rowInserts[reply.guild][reply.user] = 1

\* C35: ensureGuildUser is a get-or-create that can be repeated: on a
\* missing (u, g) it inserts one row with xp 0 and level 0; on an existing
\* one, whatever addXP and sacrifice calls came before, it returns the row
\* as it is, changes none of its fields and inserts nothing; no other row
\* changes, and no (u, g) is ever inserted twice.
C35_EnsureIsGetOrCreate ==
    [][/\ reply'.op = "ensureGuildUser" =>
            LET g == reply'.guild
                u == reply'.user
            IN  /\ Row(g, u) = NoRow =>
                      /\ guildUsers'[g][u] # NoRow
                      /\ guildUsers'[g][u].xp = 0
                      /\ guildUsers'[g][u].level = 0
                      /\ rowInserts'[g][u] = rowInserts[g][u] + 1
                /\ Row(g, u) # NoRow =>
                      /\ guildUsers'[g][u] = Row(g, u)
                      /\ rowInserts'[g][u] = rowInserts[g][u]
                /\ reply'.result = guildUsers'[g][u]
                /\ \A g2 \in DOMAIN guildUsers : \A u2 \in DOMAIN guildUsers[g2] :
                      <<g2, u2>> # <<g, u>> => guildUsers'[g2][u2] = Row(g2, u2)
       /\ \A g \in DOMAIN guildUsers : \A u \in DOMAIN guildUsers[g] :
            rowInserts'[g][u] <= 1]_vars

\* a later call has returned a row that gained xp and went through a sacrifice
C35_Witness ==
    /\ reply.op = "ensureGuildUser"
    /\ reply.result.xp > 0
    /\ reply.result.sacrifices >= 1
    /\ rowInserts[reply.guild][reply.user] = 1

C38_XpToNextPositive ==
    [][(reply'.op = "addXP" /\ reply'.result.newLevel < cfg.maxLevel) =>
          /\ reply'.result.xpToNextLevel > 0
          /\ reply'.result.currentXP < XpForLevel(cfg, reply'.result.newLevel + 1)]_vars

\* C39: a reset timer clears only the flag of the request that armed it.
\* Timers of one user and guild fire in the order they were armed, so a
\* timer that fires while a later one is still armed belongs to an earlier
\* request, whose flag the confirmation has cleared: it leaves the flag of
\* the row as it is.  No reset changes xp, level or sacrifices.
C39_TimerClearsOwnRequestOnly ==
    [][reply'.op = "resetSacrificePending" =>
          LET g == reply'.guild
              u == reply'.user
          IN  Row(g, u) # NoRow =>
                /\ guildUsers'[g][u].xp = Row(g, u).xp
                /\ guildUsers'[g][u].level = Row(g, u).level
                /\ guildUsers'[g][u].sacrifices = Row(g, u).sacrifices
                /\ timers[g][u] > 1 =>
                      guildUsers'[g][u].sacrifice_pending =
                          Row(g, u).sacrifice_pending]_vars

\* C40: for every user, addXP is invoked at most once in any cooldown
\* window, whatever the guilds of the messages: an invocation comes no
\* sooner than the cooldown after the user's previous one, in any guild;
\* and a message of a user on cooldown changes no xp of any row and leaves
\* the cooldown expiry as it was.
C40_OncePerCooldown ==
    [][/\ reply'.op = "addXP" =>
            LET u == reply'.user
            IN  cooldown.awarded[u] # NoCooldown =>
                    cooldown'.now - cooldown.awarded[u] >= CooldownTicks
       /\ reply'.op = "messageCreate" =>
            /\ guildUsers' = guildUsers
            /\ cooldown' = cooldown]_vars

\* C40 as the code has it: the same within one run of the process, counting
\* the invocations since the process started (the cooldown map is in memory
\* and a new process starts with an empty one).
C40_OncePerCooldownPerRun ==
    [][/\ reply'.op = "addXP" =>
            LET u == reply'.user
            IN  /\ cooldown.thisRun[u] # NoCooldown =>
                      cooldown'.now - cooldown.thisRun[u] >= CooldownTicks
                /\ cooldown'.thisRun[u] = cooldown'.now
                /\ cooldown'.cooldowns[u] = cooldown'.now + CooldownTicks
       /\ reply'.op = "messageCreate" =>
            /\ cooldown.thisRun[reply'.user] # NoCooldown
            /\ cooldown.now - cooldown.thisRun[reply'.user] < CooldownTicks
            /\ guildUsers' = guildUsers
            /\ cooldown' = cooldown]_vars

\* a message in guild 222 was skipped on the cooldown set by a message in
\* guild 111, after an earlier cooldown of the user had run out
C40_Witness ==
    /\ reply.op = "messageCreate"
    /\ reply.guild = "222"
    /\ reply.result = "onCooldown"
    /\ Row("111", reply.user) # NoRow
    /\ Row("111", reply.user).xp = 30000
    /\ Row("222", reply.user) = NoRow
    /\ cooldown.now >= CooldownTicks

====
